---- MODULE Spec2Model ----
(***************************************************************************)
(* Restaurant query/filter engine of restaurant-finder: the controller     *)
(* handlers getAllRestaurants (attribute path),                             *)
(* getRestaurantsNearLocation (proximity path) and getRestaurantById, and   *)
(* the error handler, over a MongoDB collection of the Restaurant documents *)
(* the scraper stores.  Spec is one request at a time on a fixed            *)
(* collection; SpecPages is a client paging through one query; SpecCompare *)
(* is a client asking one query without and then with openNow=true;        *)
(* SpecLarge is the attribute path on a collection of more documents than  *)
(* the open-now branch reads; SpecIngest is the scraper saving records     *)
(* while requests are handled; SpecScrape is one fetchRestaurants call of  *)
(* the scraper (GrabScraper), and SpecScrapeLive the same under a running  *)
(* event loop.                                                              *)
(*                                                                          *)
(* Conventions.  A JavaScript string is a sequence of symbols: one symbol   *)
(* per character where the code works on characters (numbers, opening       *)
(* hours), one symbol per word where it only compares or tokenises words    *)
(* (area, cuisine tags, search text, sort keys).  Number values with a      *)
(* fraction (rating, distanceInKm, coordinates) are held in tenths.         *)
(***************************************************************************)
EXTENDS Integers, Sequences, FiniteSets, TLC

(***************************************************************************)
(* JavaScript values and string functions used by the controller            *)
(***************************************************************************)

\* The value of a query parameter that the request does not carry.
Undefined == <<"undefined">>

\* The result of a failed parseInt / parseFloat / Number.
NaN == -1000000

Digits == {"0", "1", "2", "3", "4", "5", "6", "7", "8", "9"}

DigitVal(c) ==
  CASE c = "0" -> 0 [] c = "1" -> 1 [] c = "2" -> 2 [] c = "3" -> 3
    [] c = "4" -> 4 [] c = "5" -> 5 [] c = "6" -> 6 [] c = "7" -> 7
    [] c = "8" -> 8 [] c = "9" -> 9

isNaN(x) == x = NaN

\* `a + b` and `a * b` on numbers: NaN is absorbing.
JSAdd(a, b) == IF isNaN(a) \/ isNaN(b) THEN NaN ELSE a + b
JSMul(a, b) == IF isNaN(a) \/ isNaN(b) THEN NaN ELSE a * b

\* `a < b` on numbers.
JSLt(a, b) == ~isNaN(a) /\ ~isNaN(b) /\ a < b

\* `a <= b` on numbers: every comparison with NaN is false.
JSLeq(a, b) == ~isNaN(a) /\ ~isNaN(b) /\ a <= b

\* Truthiness of a query-string value: undefined and "" are falsy.
Truthy(s) == s # Undefined /\ s # << >>

\* `a || b` on strings.
OrElse(s, d) == IF Truthy(s) THEN s ELSE d

RECURSIVE SkipWs(_)
SkipWs(s) == IF s # << >> /\ Head(s) = " " THEN SkipWs(Tail(s)) ELSE s

RECURSIVE DropTrailingWs(_)
DropTrailingWs(s) ==
  IF s # << >> /\ s[Len(s)] = " " THEN DropTrailingWs(SubSeq(s, 1, Len(s) - 1)) ELSE s

\* String.prototype.trim
Trim(s) == DropTrailingWs(SkipWs(s))

\* The length of the longest prefix of s made of digits.
RECURSIVE DigitPrefixLen(_)
DigitPrefixLen(s) ==
  IF s # << >> /\ Head(s) \in Digits THEN 1 + DigitPrefixLen(Tail(s)) ELSE 0

\* The value of a string of digits (0 for the empty string).
RECURSIVE DigitsValue(_)
DigitsValue(s) ==
  IF s = << >> THEN 0 ELSE 10 * DigitsValue(SubSeq(s, 1, Len(s) - 1)) + DigitVal(s[Len(s)])

\* parseInt(s, 10): leading white space, an optional sign, then the longest
\* run of digits; NaN when there is no digit.  parseInt(undefined) is NaN.
ParseInt(s) ==
  IF s = Undefined THEN NaN
  ELSE LET t == SkipWs(s)
           neg == t # << >> /\ Head(t) = "-"
           u == IF t # << >> /\ Head(t) \in {"-", "+"} THEN Tail(t) ELSE t
           n == DigitPrefixLen(u)
       IN IF n = 0 THEN NaN
          ELSE IF neg THEN 0 - DigitsValue(SubSeq(u, 1, n)) ELSE DigitsValue(SubSeq(u, 1, n))

\* parseFloat(s), in tenths: leading white space, an optional sign, digits,
\* an optional "." and fraction digits (the first one is kept: the inputs
\* of the model carry at most one); NaN when no digit is read.
ParseFloat(s) ==
  IF s = Undefined THEN NaN
  ELSE LET t == SkipWs(s)
           neg == t # << >> /\ Head(t) = "-"
           u == IF t # << >> /\ Head(t) \in {"-", "+"} THEN Tail(t) ELSE t
           n == DigitPrefixLen(u)
           rest == SubSeq(u, n + 1, Len(u))
           hasDot == rest # << >> /\ Head(rest) = "."
           frac == IF hasDot THEN Tail(rest) ELSE << >>
           m == DigitPrefixLen(frac)
           mag == 10 * DigitsValue(SubSeq(u, 1, n)) + (IF m > 0 THEN DigitVal(frac[1]) ELSE 0)
       IN IF n = 0 /\ m = 0 THEN NaN
          ELSE IF neg THEN 0 - mag ELSE mag

\* Number(s) as .map(Number) applies it to a token: white space is trimmed,
\* the empty string is 0, a string of digits is its value, anything else NaN.
JSNumber(s) ==
  LET t == Trim(s)
  IN IF t = << >> THEN 0
     ELSE IF DigitPrefixLen(t) = Len(t) THEN DigitsValue(t)
     ELSE NaN

\* The index of the first occurrence of sep in s, 0 when there is none.
RECURSIVE IndexOf(_, _)
IndexOf(s, sep) ==
  IF s = << >> THEN 0
  ELSE IF Head(s) = sep THEN 1
  ELSE LET k == IndexOf(Tail(s), sep) IN IF k = 0 THEN 0 ELSE k + 1

\* String.prototype.split(sep) for a one-symbol separator.
RECURSIVE Split(_, _)
Split(s, sep) ==
  LET k == IndexOf(s, sep)
  IN IF k = 0 THEN <<s>>
     ELSE <<SubSeq(s, 1, k - 1)>> \o Split(SubSeq(s, k + 1, Len(s)), sep)

\* String.prototype.replace(sep, '') : removes the first occurrence only.
ReplaceFirst(s, sep) ==
  LET k == IndexOf(s, sep)
  IN IF k = 0 THEN s ELSE SubSeq(s, 1, k - 1) \o SubSeq(s, k + 1, Len(s))

StartsWith(s, c) == s # << >> /\ Head(s) = c

\* Element i of a destructured array: undefined past the end, and undefined
\* is NaN in the arithmetic that follows.
NumAt(list, i) == IF i <= Len(list) THEN list[i] ELSE NaN

MapNumber(parts) == [i \in 1..Len(parts) |-> JSNumber(parts[i])]

(***************************************************************************)
(* Restaurant documents                                                     *)
(***************************************************************************)

Tens == <<"0", "1", "2", "3", "4", "5", "6", "7", "8", "9">>

\* n.toString().padStart(2, '0') for 0 <= n <= 99.
PadStart2(n) == <<Tens[(n \div 10) + 1], Tens[(n % 10) + 1]>>

\* The string "HH:MM".
HHMM(h, m) == PadStart2(h) \o <<":">> \o PadStart2(m)

\* The string "HH:MM-HH:MM".
Interval(oh, om, ch, cm) == HHMM(oh, om) \o <<"-">> \o HHMM(ch, cm)

Closed == <<"C", "l", "o", "s", "e", "d">>

\* Opening-hours strings as the source platform emits them, beyond the
\* single interval: two segments separated by a space, two segments joined
\* by a hyphen, free text without a hyphen, non-numeric tokens, an hour
\* written with one digit, an interval running past midnight.
TwoSegments == Interval(11, 0, 15, 0) \o <<" ">> \o Interval(18, 0, 22, 0)
HyphenSegments == Interval(11, 0, 15, 0) \o <<"-">> \o Interval(18, 0, 22, 0)
NoHyphen == <<"2", "4", " ", "h", "o", "u", "r", "s">>
NonNumeric == <<"a", "b", ":", "c", "d", "-", "e", "f", ":", "g", "h">>
OneDigitHour == <<"9", ":", "0", "0", "-", "1", "7", ":", "0", "0">>
Overnight == Interval(22, 0, 2, 0)

daysOfWeek == <<"sun", "mon", "tue", "wed", "thu", "fri", "sat">>

DayKeys == {daysOfWeek[i] : i \in 1..7}

\* openingHours with the same entry every day, except the listed days.
Week(every, except) ==
  [d \in DayKeys |-> IF d \in DOMAIN except THEN except[d] ELSE every]

\* The documents the scraper can present, by grabId and version: version 2
\* of a grabId is a later scrape of the same restaurant.  The first five
\* follow the sample data of restaurantController.test.ts (ratings 4.5, 3.0,
\* 2.5, 4.0, 3.5; delivery 25, 45, 20, 35, 30).
DocOf(id, ver) ==
  CASE id = "rest-1" /\ ver = 1 ->
         [grabId |-> "rest-1", name |-> <<"Fast", "Pizza">>,
          address |-> <<"Main", "St">>, area |-> <<"Downtown">>,
          cuisines |-> <<<<"Pizza">>, <<"Italian">>>>,
          priceLevel |-> 2, rating |-> 45, reviewCount |-> 100, isOpen |-> TRUE,
          estimatedDeliveryTime |-> 25, distanceInKm |-> 12,
          location |-> <<1038, 13>>,
          openingHours |-> Week(Interval(11, 0, 23, 0),
             [wed |-> Interval(12, 0, 17, 0), sun |-> Closed, mon |-> Undefined])]
    [] id = "rest-1" /\ ver = 2 ->
         [grabId |-> "rest-1", name |-> <<"Fast", "Pizza">>,
          address |-> <<"Main", "St">>, area |-> <<"Downtown">>,
          cuisines |-> <<<<"Pizza">>, <<"Italian">>>>,
          priceLevel |-> 2, rating |-> 25, reviewCount |-> 110, isOpen |-> FALSE,
          estimatedDeliveryTime |-> 35, distanceInKm |-> 12,
          location |-> <<1038, 13>>,
          openingHours |-> Week(Closed, [wed |-> Interval(12, 0, 17, 0)])]
    [] id = "rest-2" /\ ver = 1 ->
         [grabId |-> "rest-2", name |-> <<"Slow", "Burgers">>,
          address |-> <<"Oak", "Ave">>, area |-> <<"Uptown">>,
          cuisines |-> <<<<"Burgers">>, <<"American">>>>,
          priceLevel |-> 3, rating |-> 30, reviewCount |-> 50, isOpen |-> FALSE,
          estimatedDeliveryTime |-> 45, distanceInKm |-> 35,
          location |-> <<1039, 13>>,
          openingHours |-> Week(TwoSegments,
             [wed |-> HyphenSegments, sun |-> NoHyphen, mon |-> NonNumeric,
              tue |-> Overnight, thu |-> OneDigitHour, fri |-> << >>])]
    [] id = "rest-3" /\ ver = 1 ->
         [grabId |-> "rest-3", name |-> <<"Cheap", "Eats">>,
          address |-> <<"Main", "St">>, area |-> <<"Downtown">>,
          cuisines |-> <<<<"Fast", " ", "Food">>, <<"Asian">>>>,
          priceLevel |-> 1, rating |-> 25, reviewCount |-> 75, isOpen |-> TRUE,
          estimatedDeliveryTime |-> 20, distanceInKm |-> 8,
          location |-> <<1038, 14>>,
          openingHours |-> Week(Interval(9, 0, 21, 0),
             [wed |-> Interval(9, 0, 16, 59), tue |-> Interval(23, 30, 23, 15)])]
    [] id = "rest-4" /\ ver = 1 ->
         [grabId |-> "rest-4", name |-> <<"Gourmet", "Thai">>,
          address |-> <<"East", "Rd">>, area |-> <<"Eastside">>,
          cuisines |-> <<<<"Thai">>, <<"Asian">>>>,
          priceLevel |-> 3, rating |-> 40, reviewCount |-> 200, isOpen |-> TRUE,
          estimatedDeliveryTime |-> 35, distanceInKm |-> 21,
          location |-> <<1060, 13>>,
          openingHours |-> Week(Interval(11, 30, 22, 0),
             [wed |-> Interval(12, 1, 22, 0), fri |-> TwoSegments])]
    [] id = "rest-5" /\ ver = 1 ->
         [grabId |-> "rest-5", name |-> <<"Seafood", "Paradise">>,
          address |-> <<"River", "Rd">>, area |-> <<"Riverside">>,
          cuisines |-> <<<<"Seafood">>, <<"Asian">>>>,
          priceLevel |-> 4, rating |-> 35, reviewCount |-> 30, isOpen |-> TRUE,
          estimatedDeliveryTime |-> 30, distanceInKm |-> 18,
          location |-> <<1036, 13>>,
          openingHours |-> Week(Interval(12, 0, 23, 0), << >>)]

\* The collection holds documents by key <<grabId, version>>; Doc is the
\* document of a key.
DocKeys ==
  {<<"rest-1", 1>>, <<"rest-1", 2>>, <<"rest-2", 1>>, <<"rest-3", 1>>,
   <<"rest-4", 1>>, <<"rest-5", 1>>}

Documents == [k \in DocKeys |-> DocOf(k[1], k[2])]

Doc(k) == Documents[k]

(***************************************************************************)
(* Requests                                                                 *)
(***************************************************************************)

\* The query parameters the two handlers read, and `cuisine`, which the
\* tests send and the handlers do not read.
FilterParams ==
  {"name", "address", "q", "area", "cuisines", "cuisine", "priceLevel", "rating",
   "minRating", "maxRating", "minPrice", "maxPrice", "minDistance", "maxDistance",
   "minReviews", "deliveryUnder30", "isOpen", "sort", "maxDeliveryTime"}

Params == FilterParams \cup {"openNow", "page", "limit", "longitude", "latitude"}

\* The filter parameters sent to GET /api/restaurants and those sent to
\* GET /api/restaurants/near, where maxDistance is the radius in metres.
ListParams == FilterParams \ {"maxDeliveryTime"}
NearParams == FilterParams \ {"name", "address", "q", "sort", "isOpen", "minDistance"}

Invalid == <<"i", "n", "v", "a", "l", "i", "d">>
True == <<"t", "r", "u", "e">>
False == <<"f", "a", "l", "s", "e">>

\* The values a request may give each filter parameter.
ParamValues(p) ==
  CASE p = "name" -> {<<"eats">>}
    [] p = "address" -> {<<"main">>}
    [] p = "q" -> {<<"pizza", " ", "asian">>}
    [] p = "area" -> {<<"Downtown">>}
    [] p = "cuisines" -> {<<"Asian">>, <<"Pizza", ",", " ", "Thai">>}
    [] p = "cuisine" -> {<<"Asian">>}
    [] p = "priceLevel" -> {<<"2">>, Invalid}
    [] p = "rating" -> {<<"4">>, Invalid}
    [] p = "minRating" -> {<<"3", ".", "5">>, Invalid}
    [] p = "maxRating" -> {<<"4">>, Invalid}
    [] p = "minPrice" -> {<<"2">>, Invalid}
    [] p = "maxPrice" -> {<<"3">>, Invalid}
    [] p = "minDistance" -> {<<"1", ".", "5">>, Invalid}
    [] p = "maxDistance" -> {<<"1", ".", "5">>, Invalid}
    [] p = "minReviews" -> {<<"7", "5">>, Invalid}
    [] p = "deliveryUnder30" -> {True}
    [] p = "isOpen" -> {True, False}
    [] p = "sort" -> {<<"priceLevel">>, <<"-", "reviewCount">>}
    [] p = "maxDeliveryTime" -> {<<"3", "0">>, Invalid}

\* The request that carries no parameter.
NoQuery == [p \in Params |-> Undefined]

\* The requests obtained from those of qs by giving each parameter of ps a value.
RECURSIVE Extend(_, _)
Extend(qs, ps) ==
  IF ps = {} THEN qs
  ELSE LET p == CHOOSE x \in ps : TRUE
       IN Extend({[q EXCEPT ![p] = v] : q \in qs, v \in ParamValues(p)}, ps \ {p})

\* A request of the model carries at most MaxParams filter parameters, besides
\* openNow, page, limit and the coordinates.
MaxParams == 2

\* The sets of at most n parameters of ps.
RECURSIVE ParamSets(_, _)
ParamSets(n, ps) ==
  IF n = 0 THEN {{}}
  ELSE LET smaller == ParamSets(n - 1, ps)
       IN smaller \cup {S \cup {p} : S \in smaller, p \in ps}

Queries(ps) == UNION {Extend({NoQuery}, S) : S \in ParamSets(MaxParams, ps)}

\* The page and limit parameters of a request.
Pagings ==
  {<<Undefined, Undefined>>, <<<<"2">>, <<"2">>>>, <<<<"0">>, <<"2">>>>}

\* The instants (day of week 0..6, hour, minute) at which a request is handled.
Instants ==
  {[day |-> 3, hour |-> 12, minute |-> 0], [day |-> 3, hour |-> 15, minute |-> 0],
   [day |-> 3, hour |-> 17, minute |-> 0], [day |-> 3, hour |-> 20, minute |-> 0],
   [day |-> 0, hour |-> 15, minute |-> 0], [day |-> 1, hour |-> 15, minute |-> 0],
   [day |-> 2, hour |-> 23, minute |-> 0], [day |-> 4, hour |-> 12, minute |-> 0],
   [day |-> 5, hour |-> 12, minute |-> 0]}

(***************************************************************************)
(* getAllRestaurants: pagination, sort and filter construction              *)
(***************************************************************************)

\* An optional value: << >> when absent, <<v>> when present.
None == << >>
Some(v) == <<v>>

\* The condition a filter holds on one numeric field: a number (eq), or an
\* object with $gte and/or $lte.
NoCond == [eq |-> None, gte |-> None, lte |-> None]

\* `{ ...c }` of the condition already held on a field: the own enumerable
\* properties of an object are copied; a number and undefined have none.
Spread(c) == [c EXCEPT !.eq = None]

WithGte(c, v) == [Spread(c) EXCEPT !.gte = Some(v)]
WithLte(c, v) == [Spread(c) EXCEPT !.lte = Some(v)]

\* page = parseInt(req.query.page || '1', 10), limit likewise with '20'.
PageOf(query) == ParseInt(OrElse(query["page"], <<"1">>))
LimitOf(query) == ParseInt(OrElse(query["limit"], <<"2", "0">>))
SkipOf(query) == JSMul(JSAdd(PageOf(query), -1), LimitOf(query))
SortOf(query) == OrElse(query["sort"], <<"-", "rating">>)

\* A text parameter is used when it is given and not blank.
Given(s) == Truthy(s) /\ Trim(s) # << >>

\* cuisines.split(',').map(c => c.trim())
CuisineArray(s) ==
  LET parts == Split(s, ",") IN [i \in 1..Len(parts) |-> Trim(parts[i])]

\* The rating condition when maxRating is used as parsed, NaN or not.
RatingCondUnchecked(query) ==
  LET exactRating == ParseFloat(query["rating"])
      minRating == ParseFloat(query["minRating"])
      maxRating == ParseFloat(query["maxRating"])
      c0 == IF ~isNaN(exactRating) THEN [NoCond EXCEPT !.eq = Some(exactRating)] ELSE NoCond
      c1 == IF ~isNaN(minRating) THEN WithGte(c0, minRating) ELSE c0
  IN IF query["maxRating"] # Undefined THEN WithLte(c1, maxRating) ELSE c1

\* A numeric parameter contributes its condition unless it parsed to NaN.
RatingCond(query) ==
  LET exactRating == ParseFloat(query["rating"])
      minRating == ParseFloat(query["minRating"])
      maxRating == ParseFloat(query["maxRating"])
      c0 == IF ~isNaN(exactRating) THEN [NoCond EXCEPT !.eq = Some(exactRating)] ELSE NoCond
      c1 == IF ~isNaN(minRating) THEN WithGte(c0, minRating) ELSE c0
  IN IF ~isNaN(maxRating) THEN WithLte(c1, maxRating) ELSE c1

PriceCond(query) ==
  LET priceLevel == ParseInt(query["priceLevel"])
      minPrice == ParseInt(query["minPrice"])
      maxPrice == ParseInt(query["maxPrice"])
      c0 == IF ~isNaN(priceLevel) THEN [NoCond EXCEPT !.eq = Some(priceLevel)] ELSE NoCond
      c1 == IF ~isNaN(minPrice) THEN WithGte(c0, minPrice) ELSE c0
  IN IF ~isNaN(maxPrice) THEN WithLte(c1, maxPrice) ELSE c1

DistanceCond(query) ==
  LET minDistance == ParseFloat(query["minDistance"])
      maxDistance == ParseFloat(query["maxDistance"])
      c1 == IF ~isNaN(minDistance) THEN WithGte(NoCond, minDistance) ELSE NoCond
  IN IF ~isNaN(maxDistance) THEN WithLte(c1, maxDistance) ELSE c1

ReviewCond(query) ==
  LET minReviews == ParseInt(query["minReviews"])
  IN IF ~isNaN(minReviews) THEN [NoCond EXCEPT !.gte = Some(minReviews)] ELSE NoCond

DeliveryCond(query) ==
  IF query["deliveryUnder30"] = True THEN [NoCond EXCEPT !.lte = Some(30)] ELSE NoCond

\* A filter that reads openNow=true as a condition on the stored isOpen.
AttributeFilterConflated(query) ==
  [name |-> IF Given(query["name"]) THEN Some(query["name"]) ELSE None,
   address |-> IF Given(query["address"]) THEN Some(query["address"]) ELSE None,
   text |-> IF Given(query["q"]) THEN Some(query["q"]) ELSE None,
   area |-> IF Given(query["area"]) THEN Some(query["area"]) ELSE None,
   cuisines |-> IF Given(query["cuisines"]) THEN Some(CuisineArray(query["cuisines"])) ELSE None,
   priceLevel |-> PriceCond(query),
   rating |-> RatingCond(query),
   distanceInKm |-> DistanceCond(query),
   reviewCount |-> ReviewCond(query),
   estimatedDeliveryTime |-> DeliveryCond(query),
   isOpen |-> IF query["isOpen"] # Undefined THEN Some(query["isOpen"] = True)
              ELSE IF query["openNow"] = True THEN Some(TRUE) ELSE None]

\* The filter object getAllRestaurants hands to Restaurant.find and
\* Restaurant.countDocuments.
AttributeFilter(query) ==
  [name |-> IF Given(query["name"]) THEN Some(query["name"]) ELSE None,
   address |-> IF Given(query["address"]) THEN Some(query["address"]) ELSE None,
   text |-> IF Given(query["q"]) THEN Some(query["q"]) ELSE None,
   area |-> IF Given(query["area"]) THEN Some(query["area"]) ELSE None,
   cuisines |-> IF Given(query["cuisines"]) THEN Some(CuisineArray(query["cuisines"])) ELSE None,
   priceLevel |-> PriceCond(query),
   rating |-> RatingCond(query),
   distanceInKm |-> DistanceCond(query),
   reviewCount |-> ReviewCond(query),
   estimatedDeliveryTime |-> DeliveryCond(query),
   isOpen |-> IF query["isOpen"] # Undefined THEN Some(query["isOpen"] = True) ELSE None]

\* The filter that matches every document.
EmptyFilter == AttributeFilter(NoQuery)

(***************************************************************************)
(* The collection: matching, text search, ordering                          *)
(***************************************************************************)

\* Case folding of the words of the documents.
Lower(w) ==
  CASE w = "Fast" -> "fast" [] w = "Pizza" -> "pizza" [] w = "Italian" -> "italian"
    [] w = "Main" -> "main" [] w = "St" -> "st" [] w = "Downtown" -> "downtown"
    [] w = "Slow" -> "slow" [] w = "Burgers" -> "burgers" [] w = "American" -> "american"
    [] w = "Oak" -> "oak" [] w = "Ave" -> "ave" [] w = "Uptown" -> "uptown"
    [] w = "Cheap" -> "cheap" [] w = "Eats" -> "eats" [] w = "Food" -> "food"
    [] w = "Asian" -> "asian" [] w = "Gourmet" -> "gourmet" [] w = "Thai" -> "thai"
    [] w = "East" -> "east" [] w = "Rd" -> "rd" [] w = "Eastside" -> "eastside"
    [] w = "Seafood" -> "seafood" [] w = "Paradise" -> "paradise"
    [] w = "River" -> "river" [] w = "Riverside" -> "riverside"
    [] OTHER -> w

LowerAll(s) == [i \in 1..Len(s) |-> Lower(s[i])]

\* The words of a string, folded.
WordsOf(s) == {Lower(s[i]) : i \in 1..Len(s)} \ {" ", ","}

\* { $regex: pattern, $options: 'i' } for a pattern of plain words: the
\* pattern occurs in the value, whatever the case.
RegexMatches(pattern, value) ==
  \E i \in 0..(Len(value) - Len(pattern)) :
    SubSeq(LowerAll(value), i + 1, i + Len(pattern)) = LowerAll(pattern)

\* The words of the cuisines array.
CuisineWords(r) == UNION {WordsOf(r.cuisines[i]) : i \in 1..Len(r.cuisines)}

\* The text index on name, cuisines, address and area, with its weights.
WeightName == 10
WeightCuisines == 5
WeightArea == 3
WeightAddress == 1

\* { $text: { $search } }: some term of the search occurs in an indexed field.
TextMatches(search, r) ==
  WordsOf(search) \cap (WordsOf(r.name) \cup CuisineWords(r) \cup WordsOf(r.address) \cup WordsOf(r.area)) # {}

\* { $meta: 'textScore' }: the weights of the fields a term occurs in.
TextScore(search, r) ==
  LET terms == WordsOf(search)
  IN (IF terms \cap WordsOf(r.name) # {} THEN WeightName ELSE 0)
     + (IF terms \cap CuisineWords(r) # {} THEN WeightCuisines ELSE 0)
     + (IF terms \cap WordsOf(r.area) # {} THEN WeightArea ELSE 0)
     + (IF terms \cap WordsOf(r.address) # {} THEN WeightAddress ELSE 0)

\* A numeric field against its condition.
CondHolds(c, v) ==
  /\ c.eq = None \/ v = c.eq[1]
  /\ c.gte = None \/ v >= c.gte[1]
  /\ c.lte = None \/ v <= c.lte[1]

\* A document against a filter: the conditions of the filter's fields, all
\* of them.  { $in: list } on the cuisines array holds when an element of
\* the array is in the list.
Matches(filter, r) ==
  /\ filter.name = None \/ RegexMatches(filter.name[1], r.name)
  /\ filter.address = None \/ RegexMatches(filter.address[1], r.address)
  /\ filter.text = None \/ TextMatches(filter.text[1], r)
  /\ filter.area = None \/ r.area = filter.area[1]
  /\ filter.cuisines = None
       \/ \E i \in 1..Len(r.cuisines), j \in 1..Len(filter.cuisines[1]) :
            r.cuisines[i] = filter.cuisines[1][j]
  /\ CondHolds(filter.priceLevel, r.priceLevel)
  /\ CondHolds(filter.rating, r.rating)
  /\ CondHolds(filter.distanceInKm, r.distanceInKm)
  /\ CondHolds(filter.reviewCount, r.reviewCount)
  /\ CondHolds(filter.estimatedDeliveryTime, r.estimatedDeliveryTime)
  /\ filter.isOpen = None \/ r.isOpen = filter.isOpen[1]

\* The keys of the documents of the collection that match a filter.
Matching(coll, filter) == {k \in coll : Matches(filter, Doc(k))}


\* The value a document is sorted by under one sort field.  The requests of
\* the model sort by numeric fields; a field no document holds is null for
\* every document.  The text score of a document depends on the search.
FieldValue(r, field, search) ==
  CASE field = <<"score">> -> TextScore(search, r)
    [] field = <<"rating">> -> r.rating
    [] field = <<"reviewCount">> -> r.reviewCount
    [] field = <<"priceLevel">> -> r.priceLevel
    [] field = <<"estimatedDeliveryTime">> -> r.estimatedDeliveryTime
    [] field = <<"distanceInKm">> -> r.distanceInKm
    [] OTHER -> 0

\* A sort that reads every field as ascending.
SortKeysAscending(sort) ==
  LET props == Split(sort, " ")
  IN [i \in 1..Len(props) |->
        [field |-> IF StartsWith(props[i], "-") THEN Tail(props[i]) ELSE props[i], dir |-> 1]]

\* Query.sort(string): the fields separated by white space, a leading "-"
\* for descending.
SortKeysOfString(sort) ==
  LET props == Split(sort, " ")
  IN [i \in 1..Len(props) |->
        IF StartsWith(props[i], "-") THEN [field |-> Tail(props[i]), dir |-> -1]
        ELSE [field |-> props[i], dir |-> 1]]

\* The argument of .sort(): with a text search, the text score first and
\* then { [sort.replace('-', '')]: sort.startsWith('-') ? -1 : 1 }.
SortKeys(filter, sort) ==
  IF filter.text # None
  THEN <<[field |-> <<"score">>, dir |-> -1],
         [field |-> ReplaceFirst(sort, "-"), dir |-> IF StartsWith(sort, "-") THEN -1 ELSE 1]>>
  ELSE SortKeysOfString(sort)

SearchOf(filter) == IF filter.text # None THEN filter.text[1] ELSE << >>

\* Document a sorts strictly before document b under the keys from k on.
RECURSIVE Before(_, _, _, _, _)
Before(a, b, keys, k, search) ==
  IF k > Len(keys) THEN FALSE
  ELSE LET va == FieldValue(a, keys[k].field, search) * keys[k].dir
           vb == FieldValue(b, keys[k].field, search) * keys[k].dir
       IN va < vb \/ (va = vb /\ Before(a, b, keys, k + 1, search))

\* The orders in which the store may return the documents of S under the
\* keys: documents that compare equal come in an order the store chooses.
RECURSIVE Orderings(_, _, _)
Orderings(S, keys, search) ==
  IF S = {} THEN {<< >>}
  ELSE UNION {{<<r>> \o t : t \in Orderings(S \ {r}, keys, search)} :
                r \in {x \in S : \A y \in S : ~Before(Doc(y), Doc(x), keys, 1, search)}}

Min(a, b) == IF a <= b THEN a ELSE b
Max(a, b) == IF a >= b THEN a ELSE b

\* A skip or limit of NaN as the find command reads it: 0.
StoreNumber(x) == IF isNaN(x) THEN 0 ELSE x

\* cursor.skip(n).limit(m) on a result: a limit of 0 is no limit, and a
\* negative limit is the limit of its absolute value.
SkipLimit(seq, skip, limit) ==
  LET s == StoreNumber(skip)
      l == IF StoreNumber(limit) < 0 THEN 0 - StoreNumber(limit) ELSE StoreNumber(limit)
  IN SubSeq(seq, s + 1, IF l = 0 THEN Len(seq) ELSE Min(s + l, Len(seq)))

\* The store rejects a find whose skip is negative.
FindRejected(skip, limit) == ~isNaN(skip) /\ skip < 0

\* A find whose skip or limit is NaN is read with 0 in its place or is
\* rejected, as the driver and the server of the build decide.
FindMayReject(skip, limit) == isNaN(skip) \/ isNaN(limit)

\* Array.prototype.slice(start, end): NaN counts as 0, a negative index
\* counts from the end.
JSSlice(seq, start, end) ==
  LET norm(x) == IF isNaN(x) THEN 0
                 ELSE IF x < 0 THEN Max(Len(seq) + x, 0) ELSE Min(x, Len(seq))
  IN SubSeq(seq, norm(start) + 1, norm(end))

\* Math.ceil(total / limit); the division by 0 gives NaN or Infinity, which
\* the JSON body carries as null.
Pages(total, limit) ==
  IF isNaN(limit) \/ limit = 0 THEN NaN
  ELSE IF limit > 0 THEN (total + limit - 1) \div limit
  ELSE 0 - (total \div (0 - limit))

(***************************************************************************)
(* The open-now post-filter                                                 *)
(***************************************************************************)

\* The ceiling of the batch the open-now branch reads: .limit(10000).
SupersetCap == 10000

\* A callback that keeps the record when its hours cannot be read.
IncludeOnError == TRUE

\* catch (error) { ...; return false }
ExcludeOnError == FALSE

\* The callback of restaurants.filter: the entry of the current day,
\* split at "-" into openTime and closeTime, each split at ":" and mapped
\* through Number.  A closeTime that is undefined makes closeTime.split
\* throw; the catch returns false.
OpenNowPredicate(restaurant, instant) ==
  LET currentDay == daysOfWeek[instant.day + 1]
      hours == restaurant.openingHours[currentDay]
      times == Split(hours, "-")
      open == MapNumber(Split(times[1], ":"))
      close == MapNumber(Split(times[2], ":"))
      openMinutes == JSAdd(JSMul(NumAt(open, 1), 60), NumAt(open, 2))
      closeMinutes == JSAdd(JSMul(NumAt(close, 1), 60), NumAt(close, 2))
      currentMinutes == instant.hour * 60 + instant.minute
  IN IF ~Truthy(hours) \/ hours = Closed THEN FALSE
     ELSE IF Len(times) < 2 THEN ExcludeOnError
     ELSE JSLeq(openMinutes, currentMinutes) /\ JSLeq(currentMinutes, closeMinutes)

\* restaurants.filter(callback) on the keys the find returned.
OpenNowFilter(found, instant) ==
  SelectSeq(found, LAMBDA k : OpenNowPredicate(Doc(k), instant))

(***************************************************************************)
(* getRestaurantsNearLocation: coordinates, match filters, $geoNear         *)
(***************************************************************************)

\* const { maxDistance = 2000 } = req.query
DefaultMaxDistance == 2000

\* distance = parseInt(maxDistance, 10)
DistanceOf(query) ==
  IF query["maxDistance"] = Undefined THEN DefaultMaxDistance
  ELSE ParseInt(query["maxDistance"])

\* The handler answers 400 without a query when a coordinate is missing or
\* does not parse.
CoordinatesMissing(query) == ~Truthy(query["longitude"]) \/ ~Truthy(query["latitude"])
LongitudeInvalid(query) == isNaN(ParseFloat(query["longitude"]))
CoordinatesInvalid(query) ==
  isNaN(ParseFloat(query["longitude"])) \/ isNaN(ParseFloat(query["latitude"]))

\* near.coordinates: [lng, lat], in tenths of a degree.
PointOf(query) == <<ParseFloat(query["longitude"]), ParseFloat(query["latitude"])>>

\* matchFilters without the condition on reviewCount.
NearFilterWithoutReviews(query) ==
  LET maxDeliveryTime == ParseInt(query["maxDeliveryTime"])
      minRating == ParseFloat(query["minRating"])
  IN [EmptyFilter EXCEPT
        !.isOpen = IF query["openNow"] = True THEN Some(TRUE) ELSE None,
        !.estimatedDeliveryTime =
           IF ~isNaN(maxDeliveryTime) THEN [NoCond EXCEPT !.lte = Some(maxDeliveryTime)] ELSE NoCond,
        !.rating = IF ~isNaN(minRating) THEN [NoCond EXCEPT !.gte = Some(minRating)] ELSE NoCond]

\* matchFilters: the stored isOpen flag for openNow, maxDeliveryTime,
\* minRating and minReviews.
NearFilter(query) ==
  LET maxDeliveryTime == ParseInt(query["maxDeliveryTime"])
      minRating == ParseFloat(query["minRating"])
      minReviews == ParseInt(query["minReviews"])
  IN [EmptyFilter EXCEPT
        !.isOpen = IF query["openNow"] = True THEN Some(TRUE) ELSE None,
        !.estimatedDeliveryTime =
           IF ~isNaN(maxDeliveryTime) THEN [NoCond EXCEPT !.lte = Some(maxDeliveryTime)] ELSE NoCond,
        !.rating = IF ~isNaN(minRating) THEN [NoCond EXCEPT !.gte = Some(minRating)] ELSE NoCond,
        !.reviewCount = IF ~isNaN(minReviews) THEN [NoCond EXCEPT !.gte = Some(minReviews)] ELSE NoCond]

\* The distance in metres that $geoNear computes, on a grid in which a
\* tenth of a degree is MetresPerTenth metres along each axis.
MetresPerTenth == 1000

Abs(x) == IF x < 0 THEN 0 - x ELSE x

GeoDistance(point, location) ==
  MetresPerTenth * (Abs(point[1] - location[1]) + Abs(point[2] - location[2]))

\* The store rejects a $geoNear stage whose maxDistance is not a
\* non-negative number.
GeoNearRejected(distance) == isNaN(distance) \/ distance < 0

\* The keys $geoNear yields: within maxDistance of the point and matching
\* the stage's query.
GeoNear(coll, point, distance, filter) ==
  {k \in Matching(coll, filter) : GeoDistance(point, Doc(k).location) <= distance}

\* A scan that returns the documents in any order.
RECURSIVE AnyOrder(_, _)
AnyOrder(S, point) ==
  IF S = {} THEN {<< >>}
  ELSE UNION {{<<k>> \o t : t \in AnyOrder(S \ {k}, point)} : k \in S}

\* $geoNear returns nearest first; documents at the same distance come in
\* an order the store chooses.
RECURSIVE NearestFirst(_, _)
NearestFirst(S, point) ==
  IF S = {} THEN {<< >>}
  ELSE UNION {{<<k>> \o t : t \in NearestFirst(S \ {k}, point)} :
                k \in {x \in S : \A y \in S :
                         GeoDistance(point, Doc(y).location) >= GeoDistance(point, Doc(x).location)}}

\* The store rejects a $skip that is not a non-negative integer and a
\* $limit that is not a positive integer.
PipelineRejected(skip, limit) == isNaN(skip) \/ skip < 0 \/ isNaN(limit) \/ limit <= 0

\* A document of the results pipeline that keeps its stored distanceInKm.
NearDocStored(k, point) ==
  [key |-> k,
   distanceInMeters |-> GeoDistance(point, Doc(k).location),
   distanceInKm |-> Doc(k).distanceInKm]

\* A document of the results pipeline: distanceField and
\* $addFields { distanceInKm: $distanceInMeters / 1000 }, in tenths of a km.
NearDoc(k, point) ==
  [key |-> k,
   distanceInMeters |-> GeoDistance(point, Doc(k).location),
   distanceInKm |-> GeoDistance(point, Doc(k).location) \div 100]

(***************************************************************************)
(* errorHandler                                                             *)
(***************************************************************************)

\* The body of a response that is not a page of results.
ErrorResponse(status) ==
  [status |-> status, success |-> FALSE, count |-> NaN,
   pagination |-> [total |-> NaN, page |-> NaN, pages |-> NaN, limit |-> NaN],
   data |-> << >>]

\* errorHandler(err): the status of an ApiError, 409 for a duplicate key,
\* otherwise 500.  err is [kind, statusCode, code].
errorHandler(err) ==
  IF err.kind = "ApiError" THEN ErrorResponse(err.statusCode)
  ELSE IF err.code = 11000 THEN ErrorResponse(409)
  ELSE ErrorResponse(500)

\* The error a failed read of the store raises.
StoreError == [kind |-> "MongoError", statusCode |-> 0, code |-> 0]

\* res.status(200).json({ success, count, pagination, data })
PageResponse(count, total, page, limit, data) ==
  [status |-> 200, success |-> TRUE, count |-> count,
   pagination |-> [total |-> total, page |-> page, pages |-> Pages(total, limit), limit |-> limit],
   data |-> data]

NoResponse == ErrorResponse(0)

(***************************************************************************)
(* State                                                                    *)
(***************************************************************************)

VARIABLES
  store,        \* the keys of the documents of the restaurants collection
  pc,           \* where the handler of the request in flight stands
  route,        \* "list" (GET /api/restaurants) or "near" (GET /api/restaurants/near)
  query,        \* req.query of the request in flight
  instant,      \* new Date() as the open-now branch reads it
  restaurants,  \* the handler's variable restaurants
  total,        \* the handler's variable total
  response,     \* the response sent for the request
  failed,       \* which store call of the request failed, "none" when none did
  id,           \* req.params.id of a request to GET /api/restaurants/:id
  session,      \* the pages a client has received while paging through one query,
                \* and those of the same query before it added openNow=true
  scraper       \* the state of the scraper's fetchRestaurants call

vars ==
  <<store, pc, route, query, instant, restaurants, total, response, failed, id, session,
    scraper>>

\* A client that is not paging through a query.
NoSession ==
  [active |-> FALSE, route |-> "list", query |-> NoQuery, pages |-> << >>, plain |-> << >>]

\* A scraper that has not been started.
NoScrape ==
  [pc |-> "idle", before |-> {}, offset |-> 0, attempts |-> 0, failures |-> 0,
   lastFailure |-> "none", answer |-> << >>, result |-> << >>, fetched |-> << >>,
   allRestaurants |-> << >>, next |-> 1, running |-> {}, settled |-> 0, threw |-> FALSE]

\* The instant of a request that does not read the clock.
NotRead == [day |-> 0, hour |-> 0, minute |-> 0]

\* The collection before the requests: the five sample restaurants.
InitStores ==
  {{<<"rest-1", 1>>, <<"rest-2", 1>>, <<"rest-3", 1>>, <<"rest-4", 1>>, <<"rest-5", 1>>}}

Init ==
  /\ store \in InitStores
  /\ pc = "idle"
  /\ route = "list"
  /\ query = NoQuery
  /\ instant = NotRead
  /\ restaurants = << >>
  /\ total = 0
  /\ response = NoResponse
  /\ failed = "none"
  /\ id = Undefined
  /\ session = NoSession
  /\ scraper = NoScrape

WithPaging(q, pg) == [q EXCEPT !["page"] = pg[1], !["limit"] = pg[2]]

WithOpenNow(q, o) == [q EXCEPT !["openNow"] = o]

\* The requests that carry parameters of ps, with and without openNow, in
\* each paging.
Requests(ps) ==
  {WithOpenNow(WithPaging(q, pg), o) : q \in Queries(ps), pg \in Pagings, o \in {Undefined, True}}

\* The requests to GET /api/restaurants.
ListRequests == Requests(ListParams)

\* The longitude and latitude of a request to GET /api/restaurants/near.
QueryPoint == <<<<"1", "0", "3", ".", "8">>, <<"1", ".", "3">>>>

Coordinates ==
  {QueryPoint,
   <<Undefined, <<"1", ".", "3">>>>,
   <<<<"1", "0", "3", ".", "8">>, << >>>>,
   <<Invalid, <<"1", ".", "3">>>>,
   <<<<"1", "0", "3", ".", "8">>, Invalid>>}

WithCoordinates(q, c) == [q EXCEPT !["longitude"] = c[1], !["latitude"] = c[2]]

\* The requests to GET /api/restaurants/near: every request with the
\* coordinates of the query point, and the requests without a filter with
\* each pair of coordinates.
NearRequests ==
  {WithCoordinates(q, QueryPoint) : q \in Requests(NearParams)}
    \cup {WithCoordinates(WithPaging(NoQuery, pg), c) : pg \in Pagings, c \in Coordinates}

(***************************************************************************)
(* getAllRestaurants                                                        *)
(***************************************************************************)

\* The request arrives; the handler parses it and builds the filter, up to
\* its first await.
ArriveList(q) ==
  /\ pc = "idle"
  /\ query' = q
  /\ instant' = NotRead
  /\ route' = "list"
  /\ pc' = "list_find"
  /\ restaurants' = << >>
  /\ total' = 0
  /\ response' = NoResponse
  /\ failed' = "none"
  /\ id' = Undefined
  /\ UNCHANGED <<store, scraper>>

\* A request of ListRequests arrives.
ReceiveList ==
  /\ pc = "idle"
  /\ \E q \in ListRequests : ArriveList(q)
  /\ UNCHANGED session

\* Without openNow: Restaurant.find(filter).sort(..).skip(skip).limit(limit).
ListFind ==
  /\ pc = "list_find"
  /\ query["openNow"] # True
  /\ ~FindRejected(SkipOf(query), LimitOf(query))
  /\ LET filter == AttributeFilter(query)
     IN \E found \in Orderings(Matching(store, filter),
                               SortKeys(filter, SortOf(query)), SearchOf(filter)) :
          restaurants' = SkipLimit(found, SkipOf(query), LimitOf(query))
  /\ pc' = "list_count"
  /\ UNCHANGED <<store, route, query, instant, total, response, failed, id, session, scraper>>

\* total = Restaurant.countDocuments(filter), then the response.
ListCount ==
  /\ pc = "list_count"
  /\ LET n == Cardinality(Matching(store, AttributeFilter(query)))
     IN /\ total' = n
        /\ response' = PageResponse(Len(restaurants), n, PageOf(query), LimitOf(query), restaurants)
  /\ pc' = "done"
  /\ UNCHANGED <<store, route, query, instant, restaurants, failed, id, session, scraper>>

\* With openNow: the clock is read, then the sorted batch of at most
\* SupersetCap documents, the open-now filter, total, the slice, then the
\* response.
ListFindOpenNow ==
  /\ pc = "list_find"
  /\ query["openNow"] = True
  /\ LET filter == AttributeFilter(query)
         skip == SkipOf(query)
         limit == LimitOf(query)
     IN \E found \in Orderings(Matching(store, filter),
                               SortKeys(filter, SortOf(query)), SearchOf(filter)) :
          \E now \in Instants :
            LET batch == SubSeq(found, 1, Min(Len(found), SupersetCap))
            IN \E open \in {OpenNowFilter(batch, now)} :
                 /\ instant' = now
                 /\ total' = Len(open)
                 /\ restaurants' = JSSlice(open, skip, JSAdd(skip, limit))
                 /\ response' = PageResponse(Len(restaurants'), total', PageOf(query), limit,
                                             restaurants')
  /\ pc' = "done"
  /\ UNCHANGED <<store, route, query, failed, id, session, scraper>>

\* A store call of getAllRestaurants throws: catch, next(error), errorHandler.
ListStoreFails ==
  /\ pc \in {"list_find", "list_count"}
  /\ failed' = IF pc = "list_count" THEN "count"
               ELSE IF /\ query["openNow"] # True
                       /\ \/ FindRejected(SkipOf(query), LimitOf(query))
                          \/ FindMayReject(SkipOf(query), LimitOf(query))
                    THEN "rejected" ELSE "find"
  /\ response' = errorHandler(StoreError)
  /\ restaurants' = << >>
  /\ total' = 0
  /\ pc' = "done"
  /\ UNCHANGED <<store, route, query, instant, id, session, scraper>>

(***************************************************************************)
(* getRestaurantsNearLocation                                               *)
(***************************************************************************)

\* The response of getRestaurantsNearLocation: count is total.
NearResponse(n, page, limit, data) == PageResponse(n, n, page, limit, data)

\* The request arrives; a missing or unparseable coordinate is answered 400.
ArriveNear(q) ==
  /\ pc = "idle"
  /\ query' = q
  /\ IF CoordinatesMissing(q) \/ CoordinatesInvalid(q)
     THEN response' = ErrorResponse(400) /\ pc' = "done"
     ELSE response' = NoResponse /\ pc' = "near_count"
  /\ route' = "near"
  /\ instant' = NotRead
  /\ restaurants' = << >>
  /\ total' = 0
  /\ failed' = "none"
  /\ id' = Undefined
  /\ UNCHANGED <<store, scraper>>

\* A request of NearRequests arrives.
ReceiveNear ==
  /\ pc = "idle"
  /\ \E q \in NearRequests : ArriveNear(q)
  /\ UNCHANGED session

\* countPipeline: [geoNearStage, { $count: "total" }].
NearCount ==
  /\ pc = "near_count"
  /\ ~GeoNearRejected(DistanceOf(query))
  /\ total' = Cardinality(GeoNear(store, PointOf(query), DistanceOf(query), NearFilter(query)))
  /\ pc' = "near_results"
  /\ UNCHANGED <<store, route, query, instant, restaurants, response, failed, id, session, scraper>>

\* resultsPipeline: [geoNearStage, $addFields, $skip, $limit], then the response.
NearResults ==
  /\ pc = "near_results"
  /\ ~GeoNearRejected(DistanceOf(query))
  /\ ~PipelineRejected(SkipOf(query), LimitOf(query))
  /\ LET point == PointOf(query)
         skip == SkipOf(query)
         limit == LimitOf(query)
     IN \E found \in NearestFirst(GeoNear(store, point, DistanceOf(query), NearFilter(query)), point) :
          LET page == SubSeq(found, skip + 1, Min(skip + limit, Len(found)))
              docs == [i \in 1..Len(page) |-> NearDoc(page[i], point)]
          IN /\ restaurants' = docs
             /\ response' = NearResponse(total, PageOf(query), limit, docs)
  /\ pc' = "done"
  /\ UNCHANGED <<store, route, query, instant, total, failed, id, session, scraper>>

\* An aggregation throws: the inner catch sets restaurants to [] and the
\* handler answers with total as it stands.
NearStoreFails ==
  /\ pc \in {"near_count", "near_results"}
  /\ failed' = IF GeoNearRejected(DistanceOf(query)) THEN "rejected"
               ELSE IF pc = "near_count" THEN "count"
               ELSE IF PipelineRejected(SkipOf(query), LimitOf(query)) THEN "rejected"
               ELSE "results"
  /\ restaurants' = << >>
  /\ response' = NearResponse(total, PageOf(query), LimitOf(query), << >>)
  /\ pc' = "done"
  /\ UNCHANGED <<store, route, query, instant, total, id, session, scraper>>

(***************************************************************************)
(* getRestaurantById                                                        *)
(***************************************************************************)

HexDigits == Digits \cup {"a", "b", "c", "d", "e", "f"}

\* The string of 24 times the character c.
Hex24(c) == [i \in 1..24 |-> c]

\* The _id the store gave the document of a grabId when it was inserted.
ObjectIdOf(grabId) ==
  CASE grabId = "rest-1" -> Hex24("1") [] grabId = "rest-2" -> Hex24("2")
    [] grabId = "rest-3" -> Hex24("3") [] grabId = "rest-4" -> Hex24("4")
    [] grabId = "rest-5" -> Hex24("5")

\* The ids a request to GET /api/restaurants/:id carries: the _id of a
\* stored document, a well-formed _id of no document, a grabId, and a
\* 24-character string that is not hexadecimal.
Ids ==
  {Hex24("1"), Hex24("4"), Hex24("a"), <<"r", "e", "s", "t", "-", "1">>, <<"a", "b", "c">>,
   Hex24("z")}

\* The cast of findById's argument to ObjectId succeeds on a string of 24
\* hexadecimal characters.
IsObjectId(s) == Len(s) = 24 /\ \A i \in 1..24 : s[i] \in HexDigits

\* The error of a failed cast, as errorHandler receives it.
CastError == [kind |-> "CastError", statusCode |-> 0, code |-> 0]

\* new ApiError(404, `Restaurant not found with id ${req.params.id}`)
NotFound == [kind |-> "ApiError", statusCode |-> 404, code |-> 0]

\* res.status(200).json({ success: true, data: restaurant })
ByIdResponse(k) == [ErrorResponse(200) EXCEPT !.success = TRUE, !.data = <<k>>]

\* The request arrives.
ReceiveById ==
  /\ pc = "idle"
  /\ \E i \in Ids : id' = i
  /\ route' = "byid"
  /\ pc' = "byid_find"
  /\ query' = NoQuery
  /\ instant' = NotRead
  /\ restaurants' = << >>
  /\ total' = 0
  /\ response' = NoResponse
  /\ failed' = "none"
  /\ UNCHANGED <<store, session, scraper>>

\* Restaurant.findById(req.params.id): the document, or null and the
\* ApiError 404 that the catch hands to errorHandler.
FindById ==
  /\ pc = "byid_find"
  /\ IsObjectId(id)
  /\ LET found == {k \in store : ObjectIdOf(k[1]) = id}
     IN IF found = {}
        THEN response' = errorHandler(NotFound)
        ELSE \E k \in found : response' = ByIdResponse(k)
  /\ pc' = "done"
  /\ UNCHANGED <<store, route, query, instant, restaurants, total, failed, id, session, scraper>>

\* findById throws, on the cast of the id or in the store: catch,
\* next(error), errorHandler.
FindByIdFails ==
  /\ pc = "byid_find"
  /\ failed' = IF IsObjectId(id) THEN "find" ELSE "cast"
  /\ response' = errorHandler(IF IsObjectId(id) THEN StoreError ELSE CastError)
  /\ pc' = "done"
  /\ UNCHANGED <<store, route, query, instant, restaurants, total, id, session, scraper>>

\* The response is sent and the handler returns: nothing of the request
\* is kept.
HandlerReturns ==
  /\ pc = "done"
  /\ pc' = "idle"
  /\ route' = "list"
  /\ query' = NoQuery
  /\ instant' = NotRead
  /\ restaurants' = << >>
  /\ total' = 0
  /\ response' = NoResponse
  /\ failed' = "none"
  /\ id' = Undefined
  /\ UNCHANGED <<store, scraper>>

Return == HandlerReturns /\ UNCHANGED session

Next ==
  \/ ReceiveList
  \/ ListFind
  \/ ListCount
  \/ ListFindOpenNow
  \/ ListStoreFails
  \/ ReceiveNear
  \/ NearCount
  \/ NearResults
  \/ NearStoreFails
  \/ ReceiveById
  \/ FindById
  \/ FindByIdFails
  \/ Return

Spec == Init /\ [][Next]_vars

(***************************************************************************)
(* A client that pages through one query                                    *)
(***************************************************************************)

\* Values of page and limit that are not numbers.
NotAPage == <<"a", "b", "c">>
NotALimit == <<"x", "y", "z">>

\* The page and limit of the first request of a client.
WalkPagings ==
  {<<Undefined, Undefined>>, <<<<"1">>, <<"2">>>>, <<NotAPage, NotALimit>>,
   <<NotAPage, <<"2">>>>, <<<<"1">>, NotALimit>>}

\* The first requests of a client to GET /api/restaurants: no filter, a
\* cuisines filter or a text search, in the default order or sorted.
WalkListRequests ==
  {WithPaging([f EXCEPT !["sort"] = srt], pg) :
     f \in {NoQuery, [NoQuery EXCEPT !["cuisines"] = <<"Asian">>],
            [NoQuery EXCEPT !["q"] = <<"pizza", " ", "asian">>]},
     srt \in {Undefined, <<"-", "priceLevel">>, <<"rating">>},
     pg \in WalkPagings}

\* The first requests of a client to GET /api/restaurants/near.
WalkNearRequests ==
  {WithCoordinates(WithPaging(f, pg), QueryPoint) :
     f \in {NoQuery, [NoQuery EXCEPT !["minRating"] = <<"3", ".", "5">>],
            [NoQuery EXCEPT !["maxDistance"] = <<"1", "0", "0", "0">>]},
     pg \in {<<Undefined, Undefined>>, <<<<"1">>, <<"2">>>>, <<<<"1">>, <<"1">>>>}}

\* The decimal string of a page number below 10.
PageString(n) == <<Tens[n + 1]>>

\* The client sends the first request of a query.
OpenList ==
  /\ pc = "idle"
  /\ ~session.active
  /\ \E q \in WalkListRequests :
       /\ ArriveList(q)
       /\ session' = [active |-> TRUE, route |-> "list", query |-> q, pages |-> << >>,
                     plain |-> << >>]

OpenNear ==
  /\ pc = "idle"
  /\ ~session.active
  /\ \E q \in WalkNearRequests :
       /\ ArriveNear(q)
       /\ session' = [active |-> TRUE, route |-> "near", query |-> q, pages |-> << >>,
                     plain |-> << >>]

\* The last response the client received.
LastPage == session.pages[Len(session.pages)]

\* The client asks for the next page of the same query, when the last
\* response says there is one.
TurnPage ==
  /\ pc = "idle"
  /\ session.active
  /\ session.pages # << >>
  /\ LastPage.status = 200
  /\ LastPage.pagination.page = Len(session.pages)
  /\ JSLt(LastPage.pagination.page, LastPage.pagination.pages)
  /\ LET q == [session.query EXCEPT !["page"] = PageString(Len(session.pages) + 1)]
     IN IF session.route = "list" THEN ArriveList(q) ELSE ArriveNear(q)
  /\ UNCHANGED session

\* The client receives the response.
Deliver ==
  /\ HandlerReturns
  /\ session' = [session EXCEPT !.pages = Append(@, response)]

\* The client is done with the query.
Leave ==
  /\ pc = "idle"
  /\ session.active
  /\ session.pages # << >>
  /\ session' = NoSession
  /\ UNCHANGED <<store, pc, route, query, instant, restaurants, total, response, failed, id,
               scraper>>

NextPages ==
  \/ OpenList
  \/ OpenNear
  \/ TurnPage
  \/ ListFind
  \/ ListCount
  \/ ListStoreFails
  \/ NearCount
  \/ NearResults
  \/ NearStoreFails
  \/ Deliver
  \/ Leave

SpecPages == Init /\ [][NextPages]_vars

(***************************************************************************)
(* A client that asks one query without and then with openNow=true         *)
(***************************************************************************)

\* The first requests of a client that compares: a filter or none, in the
\* default order or sorted by the price level, all on one page or two
\* records a page.
CompareRequests ==
  {WithPaging([f EXCEPT !["sort"] = srt], pg) :
     f \in {NoQuery, [NoQuery EXCEPT !["cuisines"] = <<"Asian">>]},
     srt \in {Undefined, <<"priceLevel">>},
     pg \in {<<Undefined, Undefined>>, <<<<"1">>, <<"2">>>>}}

\* The client sends the first request of the query, without openNow.
OpenPlain ==
  /\ pc = "idle"
  /\ ~session.active
  /\ \E q \in CompareRequests :
       /\ ArriveList(q)
       /\ session' = [active |-> TRUE, route |-> "list", query |-> q, pages |-> << >>,
                     plain |-> << >>]

\* The client has received the last page of the query.
AtLastPage ==
  /\ session.pages # << >>
  /\ \A i \in 1..Len(session.pages) :
       session.pages[i].status = 200 /\ session.pages[i].pagination.page = i
  /\ LastPage.pagination.pages = Len(session.pages)

\* Having received every page of the query, the client keeps them and sends
\* the same request with openNow=true.
AskAgainOpenNow ==
  /\ pc = "idle"
  /\ session.active
  /\ session.query["openNow"] = Undefined
  /\ AtLastPage
  /\ LET q == WithOpenNow(session.query, True)
     IN /\ ArriveList(q)
        /\ session' = [session EXCEPT !.query = q, !.plain = session.pages, !.pages = << >>]

NextCompare ==
  \/ OpenPlain
  \/ AskAgainOpenNow
  \/ TurnPage
  \/ ListFind
  \/ ListCount
  \/ ListFindOpenNow
  \/ ListStoreFails
  \/ Deliver
  \/ Leave

SpecCompare == Init /\ [][NextCompare]_vars

(***************************************************************************)
(* A collection larger than the batch of the open-now branch                *)
(***************************************************************************)

\* The number of documents the large collection holds like each of rest-1,
\* rest-4 and rest-5: the same fields under other grabIds.
GroupSize == 6000

\* The documents of the large collection that a key of the store stands for.
Copies(k) == IF k[1] \in {"rest-1", "rest-4", "rest-5"} THEN GroupSize ELSE 1

\* The documents of a set of keys of the large collection.
RECURSIVE CountAll(_)
CountAll(S) ==
  IF S = {} THEN 0
  ELSE LET k == CHOOSE x \in S : TRUE IN Copies(k) + CountAll(S \ {k})

\* A result of the large collection: for each key in turn, the number of
\* its documents that follow one another.
RunsOf(found) == [i \in 1..Len(found) |-> [key |-> found[i], n |-> Copies(found[i])]]

\* The length of a result.
RECURSIVE RunsLength(_)
RunsLength(runs) == IF runs = << >> THEN 0 ELSE runs[1].n + RunsLength(Tail(runs))

\* cursor.limit(n), n above 0: the first n documents of the result.
RECURSIVE LimitRuns(_, _)
LimitRuns(runs, n) ==
  IF runs = << >> \/ n <= 0 THEN << >>
  ELSE IF runs[1].n >= n THEN <<[runs[1] EXCEPT !.n = n]>>
  ELSE <<runs[1]>> \o LimitRuns(Tail(runs), n - runs[1].n)

\* A batch that holds every document of the result.
WholeResult(runs) == runs

\* The batch the open-now branch reads: .limit(10000) on the sorted result.
FirstBatch(runs) == LimitRuns(runs, SupersetCap)

\* cursor.skip(n): the result without its first n documents.
RECURSIVE SkipRuns(_, _)
SkipRuns(runs, n) ==
  IF runs = << >> THEN << >>
  ELSE IF n <= 0 THEN runs
  ELSE IF runs[1].n <= n THEN SkipRuns(Tail(runs), n - runs[1].n)
  ELSE <<[runs[1] EXCEPT !.n = @ - n]>> \o Tail(runs)

\* The documents of a result one by one.
RECURSIVE Expand(_)
Expand(runs) ==
  IF runs = << >> THEN << >>
  ELSE [i \in 1..runs[1].n |-> runs[1].key] \o Expand(Tail(runs))

\* cursor.skip(n).limit(m) on a result of the large collection.
SkipLimitRuns(runs, skip, limit) ==
  LET s == StoreNumber(skip)
      l == IF StoreNumber(limit) < 0 THEN 0 - StoreNumber(limit) ELSE StoreNumber(limit)
  IN IF l = 0 THEN SkipRuns(runs, s) ELSE LimitRuns(SkipRuns(runs, s), l)

\* Array.prototype.slice(start, end) on a result of the large collection.
SliceRuns(runs, start, end) ==
  LET len == RunsLength(runs)
      norm(x) == IF isNaN(x) THEN 0
                 ELSE IF x < 0 THEN Max(len + x, 0) ELSE Min(x, len)
  IN LimitRuns(SkipRuns(runs, norm(start)), norm(end) - norm(start))

\* The requests to GET /api/restaurants on the large collection: no filter,
\* a least rating or a cuisine, by rating in either direction, the first
\* page and the pages on both sides of document 10000.
LargeRequests ==
  {WithOpenNow(WithPaging([f EXCEPT !["sort"] = srt], pg), o) :
     f \in {NoQuery, [NoQuery EXCEPT !["minRating"] = <<"3", ".", "5">>],
            [NoQuery EXCEPT !["cuisines"] = <<"Asian">>]},
     srt \in {Undefined, <<"rating">>},
     pg \in {<<Undefined, Undefined>>, <<<<"5", "0", "0">>, <<"2", "0">>>>,
             <<<<"5", "0", "1">>, <<"2", "0">>>>},
     o \in {Undefined, True}}

ReceiveLarge ==
  /\ pc = "idle"
  /\ \E q \in LargeRequests : ArriveList(q)
  /\ UNCHANGED session

\* Without openNow: Restaurant.find(filter).sort(..).skip(skip).limit(limit).
ListFindLarge ==
  /\ pc = "list_find"
  /\ query["openNow"] # True
  /\ ~FindRejected(SkipOf(query), LimitOf(query))
  /\ LET filter == AttributeFilter(query)
     IN \E found \in Orderings(Matching(store, filter),
                               SortKeys(filter, SortOf(query)), SearchOf(filter)) :
          restaurants' = Expand(SkipLimitRuns(RunsOf(found), SkipOf(query), LimitOf(query)))
  /\ pc' = "list_count"
  /\ UNCHANGED <<store, route, query, instant, total, response, failed, id, session, scraper>>

\* total = Restaurant.countDocuments(filter), then the response.
ListCountLarge ==
  /\ pc = "list_count"
  /\ LET n == CountAll(Matching(store, AttributeFilter(query)))
     IN /\ total' = n
        /\ response' = PageResponse(Len(restaurants), n, PageOf(query), LimitOf(query), restaurants)
  /\ pc' = "done"
  /\ UNCHANGED <<store, route, query, instant, restaurants, failed, id, session, scraper>>

\* With openNow: the clock is read, then the sorted batch of at most
\* SupersetCap documents, the open-now filter, total, the slice, then the
\* response.
ListFindOpenNowLarge ==
  /\ pc = "list_find"
  /\ query["openNow"] = True
  /\ LET filter == AttributeFilter(query)
         skip == SkipOf(query)
         limit == LimitOf(query)
     IN \E found \in Orderings(Matching(store, filter),
                               SortKeys(filter, SortOf(query)), SearchOf(filter)) :
          \E now \in Instants :
            LET batch == FirstBatch(RunsOf(found))
            IN \E open \in {SelectSeq(batch, LAMBDA r : OpenNowPredicate(Doc(r.key), now))} :
                 /\ instant' = now
                 /\ total' = RunsLength(open)
                 /\ restaurants' = Expand(SliceRuns(open, skip, JSAdd(skip, limit)))
                 /\ response' = PageResponse(Len(restaurants'), total', PageOf(query), limit,
                                             restaurants')
  /\ pc' = "done"
  /\ UNCHANGED <<store, route, query, failed, id, session, scraper>>

NextLarge ==
  \/ ReceiveLarge
  \/ ListFindLarge
  \/ ListCountLarge
  \/ ListFindOpenNowLarge
  \/ ListStoreFails
  \/ Return

SpecLarge == Init /\ [][NextLarge]_vars

(***************************************************************************)
(* Ingestion while requests are handled                                     *)
(***************************************************************************)

\* Restaurant.findOneAndUpdate({ grabId }, restaurantData, { upsert: true }):
\* the document of the grabId is replaced, or inserted when there is none.
Upsert(coll, k) == {x \in coll : x[1] # k[1]} \cup {k}

\* The scraper saves a restaurant it scraped, at any moment of a request.
saveRestaurant ==
  /\ \E k \in DocKeys : store' = Upsert(store, k)
  /\ UNCHANGED <<pc, route, query, instant, restaurants, total, response, failed, id, session, scraper>>

\* The requests to GET /api/restaurants that arrive while the scraper runs.
IngestRequests ==
  {WithOpenNow(WithPaging(f, pg), o) :
     f \in {NoQuery, [NoQuery EXCEPT !["isOpen"] = True], [NoQuery EXCEPT !["isOpen"] = False],
            [NoQuery EXCEPT !["minRating"] = <<"3", ".", "5">>]},
     pg \in Pagings, o \in {Undefined, True}}

ReceiveListDuringIngest ==
  /\ pc = "idle"
  /\ \E q \in IngestRequests : ArriveList(q)
  /\ UNCHANGED session

\* The requests to GET /api/restaurants/near that arrive while the scraper
\* runs.
IngestNearRequests ==
  {WithCoordinates(WithPaging(f, pg), QueryPoint) :
     f \in {NoQuery, [NoQuery EXCEPT !["minRating"] = <<"3", ".", "5">>]},
     pg \in {<<Undefined, Undefined>>, <<<<"2">>, <<"2">>>>}}

ReceiveNearDuringIngest ==
  /\ pc = "idle"
  /\ \E q \in IngestNearRequests : ArriveNear(q)
  /\ UNCHANGED session

NextIngest ==
  \/ saveRestaurant
  \/ ReceiveListDuringIngest
  \/ ListFind
  \/ ListCount
  \/ ListFindOpenNow
  \/ ListStoreFails
  \/ ReceiveNearDuringIngest
  \/ NearCount
  \/ NearResults
  \/ NearStoreFails
  \/ Return

SpecIngest == Init /\ [][NextIngest]_vars

(***************************************************************************)
(* GrabScraper: fetchRestaurants, fetchPage, saveRestaurant                 *)
(***************************************************************************)

\* pageSize of the requests to the Grab API, and the defaults of the
\* constructor: the retries p-retry makes and the size of the p-limit.
pageSize == 32
maxRetries == 5
concurrentRequests == 2

\* The API presents at most MaxScraped merchants to one fetchRestaurants call.
MaxScraped == 3

\* The merchants of the API, each by the key of the document
\* transformRestaurant makes of it.
Merchants == {<<"rest-1", 1>>, <<"rest-1", 2>>, <<"rest-2", 1>>}

\* The lists of at most n merchants.
RECURSIVE MerchantLists(_)
MerchantLists(n) ==
  IF n = 0 THEN {<< >>}
  ELSE LET shorter == MerchantLists(n - 1)
       IN shorter \cup {Append(l, m) : l \in shorter, m \in Merchants}

\* response.data.searchResult.searchMerchants || []
OrEmpty(searchMerchants) == IF searchMerchants = None THEN << >> ELSE searchMerchants[1]

\* The variables of the request handlers.
handlerVars == <<pc, route, query, instant, restaurants, total, response, failed, id, session>>

\* The collection before the scraper runs: empty, or holding a record the
\* API presents again and one it does not present.
ScrapeStores == {{}, {<<"rest-1", 1>>, <<"rest-3", 1>>}}

InitScrape ==
  /\ store \in ScrapeStores
  /\ pc = "idle"
  /\ route = "list"
  /\ query = NoQuery
  /\ instant = NotRead
  /\ restaurants = << >>
  /\ total = 0
  /\ response = NoResponse
  /\ failed = "none"
  /\ id = Undefined
  /\ session = NoSession
  /\ scraper = NoScrape

\* fetchRestaurants is called: offset = 0, allRestaurants = [], and the
\* first fetchPage.
fetchRestaurants ==
  /\ scraper.pc = "idle"
  /\ scraper' = [scraper EXCEPT !.pc = "request", !.before = store]
  /\ UNCHANGED <<store, handlerVars>>

\* One attempt of fetchPage: axios.post answers with a body that holds
\* searchMerchants or none, with 429, with another failure (a status >= 400
\* or a network error), or with a body without searchResult (a TypeError).
Post ==
  /\ scraper.pc = "request"
  /\ \/ \E searchMerchants \in
            {None} \cup {Some(l) : l \in MerchantLists(MaxScraped - Len(scraper.allRestaurants))} :
          scraper' = [scraper EXCEPT !.attempts = @ + 1,
                                     !.answer = searchMerchants,
                                     !.result = OrEmpty(searchMerchants),
                                     !.pc = "resolved"]
     \/ \E kind \in {"429", "error", "malformed"} :
          scraper' = [scraper EXCEPT !.attempts = @ + 1, !.failures = @ + 1,
                                     !.lastFailure = kind,
                                     !.pc = IF kind = "429" THEN "wait" ELSE "failedAttempt"]
  /\ UNCHANGED <<store, handlerVars>>

\* After a 429: setTimeout(requestDelayMs * 5), then throw new Error('Rate limited').
RateLimitDelay ==
  /\ scraper.pc = "wait"
  /\ scraper' = [scraper EXCEPT !.pc = "failedAttempt"]
  /\ UNCHANGED <<store, handlerVars>>

\* A p-retry that makes one attempt more than retries after the first.
RetriesLeftOffByOne(attempts) == attempts <= maxRetries + 1

\* p-retry makes retries more attempts after the first: after attempts
\* failed attempts another one follows while attempts <= retries.
RetriesLeft(attempts) == attempts <= maxRetries

\* p-retry after a failed attempt: another attempt while retries are left,
\* otherwise fetchPage rejects.  A TypeError that is no network error is
\* retried or ends the retries at once, as the p-retry of the build does.
onFailedAttempt ==
  /\ scraper.pc = "failedAttempt"
  /\ \/ /\ RetriesLeft(scraper.attempts)
        /\ scraper' = [scraper EXCEPT !.pc = "request"]
     \/ /\ ~RetriesLeft(scraper.attempts) \/ scraper.lastFailure = "malformed"
        /\ scraper' = [scraper EXCEPT !.pc = "rejected"]
  /\ UNCHANGED <<store, handlerVars>>

\* A loop that asks for the same offset again.
SameOffset(offset) == offset

\* offset += this.pageSize
NextOffset(offset) == offset + pageSize

\* The scraper with the state of fetchPage cleared, between two pages.
BetweenPages(sc) ==
  [sc EXCEPT !.attempts = 0, !.failures = 0, !.lastFailure = "none",
             !.answer = << >>, !.result = << >>]

\* fetchPage resolved: an empty page ends the loop; the restaurants of
\* another page are added, the offset moves on and, after the delay, the
\* next page is fetched.
PageFetched ==
  /\ scraper.pc = "resolved"
  /\ LET page == [offset |-> scraper.offset, ok |-> TRUE, merchants |-> scraper.result]
     IN IF Len(scraper.result) = 0
        THEN scraper' = [BetweenPages(scraper) EXCEPT !.fetched = Append(@, page),
                                                      !.pc = "saving"]
        ELSE scraper' = [BetweenPages(scraper) EXCEPT
                           !.fetched = Append(@, page),
                           !.allRestaurants = @ \o scraper.result,
                           !.offset = NextOffset(@),
                           !.pc = "request"]
  /\ UNCHANGED <<store, handlerVars>>

\* fetchPage rejected: the catch of the loop ends it.
PageFailed ==
  /\ scraper.pc = "rejected"
  /\ scraper' = [BetweenPages(scraper) EXCEPT
                   !.fetched = Append(@, [offset |-> scraper.offset, ok |-> FALSE,
                                          merchants |-> << >>]),
                   !.pc = "saving"]
  /\ UNCHANGED <<store, handlerVars>>

\* A grabId has a document in the collection.
Stored(coll, grabId) == \E x \in coll : x[1] = grabId

\* The insert of an upsert that found no document, without the unique
\* index on grabId.
InsertAgain(coll, k) == coll \cup {k}

\* The insert of an upsert that found no document: under the unique index
\* on grabId a document stored meanwhile makes the insert fail with a
\* duplicate key, and the server runs the upsert again as an update.
InsertUnique(coll, k) == IF Stored(coll, k[1]) THEN Upsert(coll, k) ELSE coll \cup {k}

\* The limiter has a free slot and a save waits in its queue.
MayStartSave ==
  /\ scraper.pc = "saving"
  /\ scraper.next <= Len(scraper.allRestaurants)
  /\ Cardinality(scraper.running) < concurrentRequests

\* limit(() => saveRestaurant(r)) runs findOneAndUpdate for a grabId that
\* is stored: the document is updated.
SaveUpdate ==
  /\ MayStartSave
  /\ Stored(store, scraper.allRestaurants[scraper.next][1])
  /\ store' = Upsert(store, scraper.allRestaurants[scraper.next])
  /\ scraper' = [scraper EXCEPT !.next = @ + 1, !.settled = @ + 1]
  /\ UNCHANGED handlerVars

\* findOneAndUpdate for a grabId that is not stored finds no document and
\* goes on to insert one.
SaveMiss ==
  /\ MayStartSave
  /\ ~Stored(store, scraper.allRestaurants[scraper.next][1])
  /\ scraper' = [scraper EXCEPT !.next = @ + 1, !.running = @ \cup {scraper.next}]
  /\ UNCHANGED <<store, handlerVars>>

\* The insert of an upsert that found no document.
SaveInsert ==
  /\ scraper.pc = "saving"
  /\ \E i \in scraper.running :
       /\ store' = InsertUnique(store, scraper.allRestaurants[i])
       /\ scraper' = [scraper EXCEPT !.running = @ \ {i}, !.settled = @ + 1]
  /\ UNCHANGED handlerVars

\* The store fails a save: saveRestaurant throws, Promise.all rejects and
\* fetchRestaurants throws; the limiter goes on with the saves in its queue.
SaveThrows ==
  /\ MayStartSave
  /\ scraper' = [scraper EXCEPT !.next = @ + 1, !.threw = TRUE]
  /\ UNCHANGED <<store, handlerVars>>

\* Every save has settled: fetchRestaurants returns, unless it threw.
ScrapeReturns ==
  /\ scraper.pc = "saving"
  /\ scraper.next > Len(scraper.allRestaurants)
  /\ scraper.running = {}
  /\ scraper' = [scraper EXCEPT !.pc = "done"]
  /\ UNCHANGED <<store, handlerVars>>

NextScrape ==
  \/ fetchRestaurants
  \/ Post
  \/ RateLimitDelay
  \/ onFailedAttempt
  \/ PageFetched
  \/ PageFailed
  \/ SaveUpdate
  \/ SaveMiss
  \/ SaveInsert
  \/ SaveThrows
  \/ ScrapeReturns

SpecScrape == InitScrape /\ [][NextScrape]_vars

\* The event loop goes on running the scraper, and every request to the
\* API settles (timeout: 10000).
SpecScrapeLive == SpecScrape /\ WF_vars(NextScrape)

(***************************************************************************)
(* Properties of the responses                                              *)
(***************************************************************************)

\* A request to GET /api/restaurants was answered and no store call of it
\* failed.
ListAnswered == pc = "done" /\ route = "list" /\ failed = "none"

\* A request to GET /api/restaurants/near with usable coordinates was
\* answered and no store call of it failed.
NearAnswered ==
  pc = "done" /\ route = "near" /\ failed = "none" /\ response.status # 400

\* The document satisfies every filter the request carries, each taken by
\* itself: a text filter that is not blank, a numeric filter whose value is
\* a number, deliveryUnder30=true, isOpen.
SatisfiesEveryFilter(q, r) ==
  /\ Given(q["name"]) => RegexMatches(q["name"], r.name)
  /\ Given(q["address"]) => RegexMatches(q["address"], r.address)
  /\ Given(q["q"]) => TextMatches(q["q"], r)
  /\ Given(q["area"]) => r.area = q["area"]
  /\ Given(q["cuisines"]) =>
       \E i \in 1..Len(r.cuisines) :
         \E j \in 1..Len(CuisineArray(q["cuisines"])) :
           r.cuisines[i] = CuisineArray(q["cuisines"])[j]
  /\ ~isNaN(ParseFloat(q["rating"])) => r.rating = ParseFloat(q["rating"])
  /\ ~isNaN(ParseFloat(q["minRating"])) => r.rating >= ParseFloat(q["minRating"])
  /\ ~isNaN(ParseFloat(q["maxRating"])) => r.rating <= ParseFloat(q["maxRating"])
  /\ ~isNaN(ParseInt(q["priceLevel"])) => r.priceLevel = ParseInt(q["priceLevel"])
  /\ ~isNaN(ParseInt(q["minPrice"])) => r.priceLevel >= ParseInt(q["minPrice"])
  /\ ~isNaN(ParseInt(q["maxPrice"])) => r.priceLevel <= ParseInt(q["maxPrice"])
  /\ ~isNaN(ParseFloat(q["minDistance"])) => r.distanceInKm >= ParseFloat(q["minDistance"])
  /\ ~isNaN(ParseFloat(q["maxDistance"])) => r.distanceInKm <= ParseFloat(q["maxDistance"])
  /\ ~isNaN(ParseInt(q["minReviews"])) => r.reviewCount >= ParseInt(q["minReviews"])
  /\ q["deliveryUnder30"] = True => r.estimatedDeliveryTime <= 30
  /\ q["isOpen"] # Undefined => r.isOpen = (q["isOpen"] = True)

\* Elements [skip, skip + limit) of a sequence, counted from 0.
Elements(seq, skip, limit) == SubSeq(seq, Max(skip, 0) + 1, Min(skip + limit, Len(seq)))

\* data is elements [skip, skip + limit) of the documents of S in the sort
\* order of the request.
IsPageOf(data, S, q) ==
  \E filter \in {AttributeFilter(q)} :
    \E o \in Orderings(S, SortKeys(filter, SortOf(q)), SearchOf(filter)) :
      data = Elements(o, SkipOf(q), LimitOf(q))

\* C1 as stated: a request without openNow is answered with total = the
\* number of stored records that satisfy all the filters it carries, and
\* with data = elements [skip, skip + limit) of those records in the sort
\* order of the request.
C1_TotalAndPageOfAllFilters ==
  (ListAnswered /\ query["openNow"] # True) =>
    LET S == {k \in store : SatisfiesEveryFilter(query, Doc(k))}
    IN /\ response.status = 200
       /\ response.pagination.total = Cardinality(S)
       /\ IsPageOf(response.data, S, query)

\* C2 as stated: a request with openNow=true is answered with total = the
\* number of stored records that satisfy every other filter it carries and
\* are open at the instant of the request, and with data = elements
\* [skip, skip + limit) of that filtered sequence.
C2_OpenNowTotalAndPage ==
  (ListAnswered /\ query["openNow"] = True) =>
    LET S == {k \in store : SatisfiesEveryFilter(query, Doc(k))
                               /\ OpenNowPredicate(Doc(k), instant)}
    IN /\ response.status = 200
       /\ response.pagination.total = Cardinality(S)
       /\ IsPageOf(response.data, S, query)

\* The day name of day number d under Sunday = 0 .. Saturday = 6.
DayName(d) ==
  CASE d = 0 -> "sun" [] d = 1 -> "mon" [] d = 2 -> "tue" [] d = 3 -> "wed"
    [] d = 4 -> "thu" [] d = 5 -> "fri" [] d = 6 -> "sat"

\* The entry of the day of an instant in the opening hours of a document.
EntryAt(k, now) == Doc(k).openingHours[DayName(now.day)]

\* The entry is exactly one interval "HH:MM-HH:MM".
OneInterval(e) ==
  /\ Len(e) = 11
  /\ e[3] = ":" /\ e[6] = "-" /\ e[9] = ":"
  /\ \A i \in {1, 2, 4, 5, 7, 8, 10, 11} : e[i] \in Digits

\* The minutes since midnight that the "HH:MM" at position i of an entry
\* names.
MinutesAt(e, i) ==
  (10 * DigitVal(e[i]) + DigitVal(e[i + 1])) * 60 + 10 * DigitVal(e[i + 3]) + DigitVal(e[i + 4])

MinutesOf(now) == now.hour * 60 + now.minute

\* The request shows every record that passes the open-now filter on one
\* page: the first page, holding more records than the store.
ShowsAll == SkipOf(query) = 0 /\ LimitOf(query) >= Cardinality(store)

\* The keys of the records of a page of the attribute path.
Shown == {response.data[i] : i \in 1..Len(response.data)}

ParseFails(e) ==
  LET parts == Split(e, "-")
      bad(part) == LET tokens == Split(part, ":")
                   IN Len(tokens) < 2 \/ isNaN(JSNumber(tokens[1])) \/ isNaN(JSNumber(tokens[2]))
  IN Len(parts) < 2 \/ bad(parts[1]) \/ bad(parts[2])

\* The interval of the entry runs past midnight.
Wraps(e) == OneInterval(e) /\ MinutesAt(e, 7) < MinutesAt(e, 1)

FloatParams == {"rating", "minRating", "maxRating", "minDistance", "maxDistance"}
IntParams == {"priceLevel", "minPrice", "maxPrice", "minReviews"}

\* The request gives the numeric parameter p a value that is not a number.
NotANumber(q, p) ==
  /\ q[p] # Undefined
  /\ IF p \in FloatParams THEN isNaN(ParseFloat(q[p])) ELSE isNaN(ParseInt(q[p]))

\* The request without the parameter p.
Without(q, p) == [q EXCEPT ![p] = Undefined]

\* C5: a request that gives a numeric filter parameter a value that is not
\* a number is answered 200 with the total and the records of the same
\* request without that parameter, the other filters of the request
\* applied as they are.
C5_InvalidNumberAsOmitted ==
  ListAnswered =>
    \A p \in FloatParams \cup IntParams :
      NotANumber(query, p) =>
        \E q0 \in {Without(query, p)} :
          \E M \in {Matching(store, AttributeFilter(q0))} :
            \E S \in {IF query["openNow"] = True
                       THEN {k \in M : OpenNowPredicate(Doc(k), instant)} ELSE M} :
              /\ response.status = 200
              /\ response.pagination.total = Cardinality(S)
              /\ IsPageOf(response.data, S, q0)

\* C5's case: maxRating=invalid with area=Downtown is answered with the two
\* records of Downtown.
C5_Witness ==
  /\ ListAnswered
  /\ NotANumber(query, "maxRating")
  /\ query["area"] = <<"Downtown">>
  /\ response.status = 200
  /\ response.pagination.total = 2
  /\ Shown = {<<"rest-1", 1>>, <<"rest-3", 1>>}

\* The request carries no filter parameter but the non-text filters that
\* both paths are said to share.
SharedFilters ==
  {"area", "cuisine", "cuisines", "rating", "minRating", "maxRating", "minReviews",
   "priceLevel", "minPrice", "maxPrice", "deliveryUnder30"}

OnlySharedFilters(q) ==
  /\ \A p \in FilterParams \ (SharedFilters \cup {"sort"}) : q[p] = Undefined
  /\ q["openNow"] = Undefined

\* The keys of the records of a page of the proximity path.
ShownNear == {response.data[i].key : i \in 1..Len(response.data)}

\* The stored records within the radius of the request around its point.
InRange(coll, q) ==
  {k \in coll : GeoDistance(PointOf(q), Doc(k).location) <= DistanceOf(q)}

\* C6 as stated: the proximity path selects, among the records in range,
\* exactly those that the filter of the attribute path selects for the
\* same parameters.
C6_SamePredicateAsAttributePath ==
  (NearAnswered /\ OnlySharedFilters(query)) =>
    LET S == {k \in InRange(store, query) : Matches(AttributeFilter(query), Doc(k))}
    IN /\ response.pagination.total = Cardinality(S)
       /\ ShownNear \subseteq S

\* The page of the proximity path is elements [skip, skip + limit) of the
\* records of S, nearest first.
IsNearPageOf(data, S, q) ==
  \E o \in NearestFirst(S, PointOf(q)) :
    [i \in 1..Len(data) |-> data[i].key] = Elements(o, SkipOf(q), LimitOf(q))

\* C7 as stated: a proximity request with openNow=true is answered with
\* the total and the records of the same request without openNow.
C7_OpenNowNotAppliedNear ==
  (NearAnswered /\ query["openNow"] = True) =>
    LET q0 == Without(query, "openNow")
        S == GeoNear(store, PointOf(q0), DistanceOf(q0), NearFilter(q0))
    IN /\ response.pagination.total = Cardinality(S)
       /\ IsNearPageOf(response.data, S, q0)

\* The conditions the proximity path puts on a record: the stored isOpen
\* flag for openNow, maxDeliveryTime, minRating, minReviews.
NearConditions(q, r) ==
  /\ q["openNow"] = True => r.isOpen
  /\ ~isNaN(ParseInt(q["maxDeliveryTime"])) =>
       r.estimatedDeliveryTime <= ParseInt(q["maxDeliveryTime"])
  /\ ~isNaN(ParseFloat(q["minRating"])) => r.rating >= ParseFloat(q["minRating"])
  /\ ~isNaN(ParseInt(q["minReviews"])) => r.reviewCount >= ParseInt(q["minReviews"])

\* C8: a proximity request answered without a storage error has total =
\* the number of records in range that satisfy its conditions, and data =
\* elements [skip, skip + limit) of those records nearest first, so data is
\* empty exactly when skip >= total.
C8_NearTotalAndPageAgree ==
  NearAnswered =>
    LET S == {k \in InRange(store, query) : NearConditions(query, Doc(k))}
    IN /\ response.status = 200
       /\ response.pagination.total = Cardinality(S)
       /\ IsNearPageOf(response.data, S, query)
       /\ response.data = << >> <=> SkipOf(query) >= response.pagination.total

\* C8's case: page 2 of limit 2 with maxDeliveryTime=30 holds the third of
\* the three records in range that deliver within 30 minutes.
C8_Witness ==
  /\ NearAnswered
  /\ query["maxDeliveryTime"] = <<"3", "0">>
  /\ SkipOf(query) = 2
  /\ response.pagination.total = 3
  /\ Len(response.data) = 1

\* C9 as stated: when the find or the countDocuments of getAllRestaurants
\* fails, the request is answered 200 with empty data and total = 0.
C9_ListFailureGivesEmptyPage ==
  (pc = "done" /\ route = "list" /\ failed \in {"find", "count"}) =>
    /\ response.status = 200
    /\ response.data = << >>
    /\ response.pagination.total = 0

\* C10 as stated: when either aggregation of getRestaurantsNearLocation
\* fails, the request is answered 200 with empty data and total = 0.
C10_NearFailureGivesEmptyPage ==
  (pc = "done" /\ route = "near" /\ failed \in {"count", "results"}) =>
    /\ response.status = 200
    /\ response.data = << >>
    /\ response.pagination.total = 0

\* The sort key a request asks for: the field of its sort parameter, "-"
\* for descending, and descending rating when it carries none.
AskedField(q) ==
  IF q["sort"] = Undefined THEN <<"rating">>
  ELSE IF StartsWith(q["sort"], "-") THEN Tail(q["sort"]) ELSE q["sort"]

AskedDescending(q) == q["sort"] = Undefined \/ StartsWith(q["sort"], "-")

\* Record a may come right before record b in the answer to q.
InAskedOrder(q, a, b) ==
  LET va == FieldValue(a, AskedField(q), << >>)
      vb == FieldValue(b, AskedField(q), << >>)
      byKey == IF AskedDescending(q) THEN va >= vb ELSE va <= vb
  IN IF Given(q["q"])
     THEN \/ TextScore(q["q"], a) > TextScore(q["q"], b)
          \/ TextScore(q["q"], a) = TextScore(q["q"], b) /\ byKey
     ELSE byKey

\* C12: the records of every answer of the attribute path, with openNow or
\* without, follow the order asked for: descending rating without a sort
\* parameter, ascending by sort=<field>, descending by sort=-<field>, and
\* with a q filter by descending relevance score first, the sort key
\* deciding between records of equal score.
C12_Ordering ==
  ListAnswered =>
    \A i \in 1..(Len(response.data) - 1) :
      InAskedOrder(query, Doc(response.data[i]), Doc(response.data[i + 1]))

\* C12's case: q with sort=priceLevel puts the record with the higher score
\* first although its price level is not the lowest, and the records of
\* equal score after it by ascending price level.
C12_Witness ==
  /\ ListAnswered
  /\ query["q"] = <<"pizza", " ", "asian">>
  /\ query["sort"] = <<"priceLevel">>
  /\ response.data = <<<<"rest-1", 1>>, <<"rest-3", 1>>, <<"rest-4", 1>>, <<"rest-5", 1>>>>

\* C13 as stated: when rating is given with minRating and/or maxRating,
\* every returned record has exactly the rating given.
C13_ExactRatingOverridesBounds ==
  (/\ ListAnswered
   /\ ~isNaN(ParseFloat(query["rating"]))
   /\ ~isNaN(ParseFloat(query["minRating"])) \/ ~isNaN(ParseFloat(query["maxRating"]))) =>
    \A k \in Shown : Doc(k).rating = ParseFloat(query["rating"])

\* The request carries no filter parameter but cuisine and cuisines.
OnlyCuisine(q) ==
  /\ \A p \in FilterParams \ {"cuisine", "cuisines", "sort"} : q[p] = Undefined
  /\ q["openNow"] = Undefined
  /\ Given(q["cuisine"]) \/ Given(q["cuisines"])

\* The record's cuisines list contains one of the comma-separated values.
HasCuisine(r, value) ==
  \E i \in 1..Len(r.cuisines) :
    \E j \in 1..Len(CuisineArray(value)) : r.cuisines[i] = CuisineArray(value)[j]

\* C14 as stated: a request with cuisine=X, or with cuisines=X or
\* cuisines=X,Y, returns only records whose cuisines list contains a given
\* value, and total is the number of such records.
C14_CuisineMembership ==
  (ListAnswered /\ OnlyCuisine(query)) =>
    LET S == {k \in store :
                /\ Given(query["cuisine"]) => HasCuisine(Doc(k), query["cuisine"])
                /\ Given(query["cuisines"]) => HasCuisine(Doc(k), query["cuisines"])}
    IN /\ Shown \subseteq S
       /\ response.pagination.total = Cardinality(S)

\* The radius a proximity request asks for, in tenths of a metre: its
\* maxDistance, 2000 metres when it carries none.
AskedRadius(q) ==
  IF q["maxDistance"] = Undefined THEN 10 * DefaultMaxDistance ELSE ParseFloat(q["maxDistance"])

\* C16: every record of an answer of the proximity path carries
\* distanceInKm = its computed distance in metres / 1000, whatever
\* distanceInKm it has stored, and distanceInKm <= maxDistance / 1000.
C16_DistanceInKm ==
  NearAnswered =>
    \A i \in 1..Len(response.data) :
      \E d \in {GeoDistance(PointOf(query), Doc(response.data[i].key).location)} :
        /\ response.data[i].distanceInMeters = d
        /\ response.data[i].distanceInKm * 100 = d
        /\ response.data[i].distanceInKm * 1000 <= AskedRadius(query)

\* C16's case: the record 2000 metres away, stored with distanceInKm 1.8, is
\* returned with distanceInKm 2.0 under the default radius.
C16_Witness ==
  /\ NearAnswered
  /\ query["maxDistance"] = Undefined
  /\ \E i \in 1..Len(response.data) :
       /\ response.data[i].key = <<"rest-5", 1>>
       /\ Doc(response.data[i].key).distanceInKm = 18
       /\ response.data[i].distanceInKm = 20

\* The coordinate is missing or does not parse as a number.
Unusable(s) == s = Undefined \/ s = << >> \/ isNaN(ParseFloat(s))

\* C17: a request to the proximity endpoint whose longitude or latitude is
\* missing or does not parse is answered 400 with success false as soon as
\* it arrives: it never stands at a store call, and it carries no records.
C17_BadCoordinates ==
  (route = "near" /\ (Unusable(query["longitude"]) \/ Unusable(query["latitude"]))) =>
    /\ pc = "done"
    /\ response.status = 400
    /\ response.success = FALSE
    /\ response.data = << >>
    /\ failed = "none"

\* C17's case: a latitude that is not a number.
C17_Witness ==
  /\ route = "near"
  /\ query["longitude"] = QueryPoint[1]
  /\ query["latitude"] = Invalid
  /\ pc = "done"
  /\ response.status = 400

\* C20 as stated: unless the store fails, getRestaurantById answers 200
\* with the record when the id is that of a stored record, and 404 for
\* every other id.
C20_ByIdFoundOrNotFound ==
  (pc = "done" /\ route = "byid" /\ failed # "find") =>
    LET found == {k \in store : ObjectIdOf(k[1]) = id}
    IN IF found = {}
       THEN response.status = 404 /\ response.success = FALSE
       ELSE response.status = 200 /\ response.data \in {<<k>> : k \in found}

\* The records of the pages a client received, in the order received.
RECURSIVE Concat(_)
Concat(pgs) == IF pgs = << >> THEN << >> ELSE pgs[1].data \o Concat(Tail(pgs))

\* The client has walked a query of route r from page 1 to the last page,
\* and every page was answered.
WalkedAll(r) ==
  /\ pc = "idle"
  /\ session.active
  /\ session.route = r
  /\ session.pages # << >>
  /\ \A i \in 1..Len(session.pages) :
       session.pages[i].status = 200 /\ session.pages[i].pagination.page = i
  /\ LastPage.pagination.pages = Len(session.pages)

\* n is the ceiling of total / limit, for a limit above 0.
IsCeil(n, t, limit) == n * limit >= t /\ (n - 1) * limit < t

\* C11 as stated: every answer of the attribute path with a limit above 0
\* has pages = ceil(total / limit); and the pages 1..pages a client walks
\* through with the store unchanged hold each record that satisfies the
\* filters exactly once, their concatenation being the whole matching
\* sequence in the order asked for.
C11_PagesPartition ==
  (session.active /\ session.route = "list") =>
    /\ \A i \in 1..Len(session.pages) :
         (session.pages[i].status = 200 /\ session.pages[i].pagination.limit > 0) =>
           IsCeil(session.pages[i].pagination.pages, session.pages[i].pagination.total,
                  session.pages[i].pagination.limit)
    /\ WalkedAll("list") =>
         \E all \in {Concat(session.pages)} :
           /\ Len(all) = Cardinality({all[i] : i \in 1..Len(all)})
           /\ {all[i] : i \in 1..Len(all)}
                = {k \in store : SatisfiesEveryFilter(session.query, Doc(k))}
           /\ \A i \in 1..(Len(all) - 1) :
                InAskedOrder(session.query, Doc(all[i]), Doc(all[i + 1]))

\* The distance in metres from the query point of the client's query to a
\* record of a page of the proximity path.
DistanceTo(rec) == GeoDistance(PointOf(session.query), Doc(rec.key).location)

\* C15: in the pages a client receives from the proximity path, the
\* distance to the query point never decreases within a page nor from the
\* last record of a page to the first record of the next, and no record
\* lies farther than maxDistance (2000 metres by default).
C15_NearestFirstAcrossPages ==
  (session.active /\ session.route = "near") =>
    /\ \A i \in 1..Len(session.pages) :
         \E d \in {session.pages[i].data} :
           /\ \A j \in 1..(Len(d) - 1) : DistanceTo(d[j]) <= DistanceTo(d[j + 1])
           /\ \A j \in 1..Len(d) : 10 * DistanceTo(d[j]) <= AskedRadius(session.query)
    /\ \A i \in 1..(Len(session.pages) - 1) :
         (session.pages[i].data # << >> /\ session.pages[i + 1].data # << >>) =>
           DistanceTo(session.pages[i].data[Len(session.pages[i].data)])
             <= DistanceTo(session.pages[i + 1].data[1])

\* C15's case: with limit 2, page 1 ends and page 2 starts with a record
\* 1000 metres away, and page 2 ends with the record 2000 metres away.
C15_Witness ==
  /\ session.active /\ session.route = "near"
  /\ Len(session.pages) = 2
  /\ Len(session.pages[1].data) = 2 /\ Len(session.pages[2].data) = 2
  /\ DistanceTo(session.pages[1].data[2]) = 1000
  /\ DistanceTo(session.pages[2].data[1]) = 1000
  /\ DistanceTo(session.pages[2].data[2]) = 2000

\* The request gives page or limit a value that is not a number.
Unparseable(v) == v # Undefined /\ isNaN(ParseInt(v))

\* C19 as stated: a request to the attribute endpoint whose page or limit
\* is not a number is answered 200 with success true, the page being 1 and
\* the limit 20 in place of the value that does not parse.
C19_DefaultsForMalformedPaging ==
  (/\ pc = "done" /\ route = "list" /\ failed \in {"none", "rejected"}
   /\ Unparseable(query["page"]) \/ Unparseable(query["limit"])) =>
    /\ response.status = 200
    /\ response.success = TRUE
    /\ response.pagination.page = IF Unparseable(query["page"]) THEN 1 ELSE PageOf(query)
    /\ response.pagination.limit = IF Unparseable(query["limit"]) THEN 20 ELSE LimitOf(query)

\* C18 as stated: a request with openNow=true that is answered while the
\* scraper saves records has data.length = min(limit, max(0, total - skip)).
C18_OpenNowSnapshot ==
  (ListAnswered /\ query["openNow"] = True) =>
    /\ response.status = 200
    /\ Len(response.data)
         = Min(LimitOf(query), Max(0, response.pagination.total - SkipOf(query)))

(***************************************************************************)
(* Properties of the scraper                                                *)
(***************************************************************************)

\* No two documents of the collection share a grabId.
OnePerGrabId(coll) == \A x, y \in coll : x[1] = y[1] => x = y

\* The restaurants the call has fetched.
Scraped == {scraper.allRestaurants[i] : i \in 1..Len(scraper.allRestaurants)}

\* Every save of the call has settled and none threw.
AllSaved == scraper.pc = "done" /\ ~scraper.threw

\* C21: at every moment of a fetchRestaurants call, its concurrent saves
\* included, the collection holds at most one record per grabId; and when
\* the saves have settled, every fetched grabId has its one record, which
\* is one of the fetched records of that grabId (saved once or more than
\* once), a grabId stored before has no second record, and the records of
\* the grabIds that were not fetched are as they were.
C21_UpsertByGrabId ==
  /\ OnePerGrabId(store)
  /\ AllSaved =>
       /\ \A k \in Scraped : Stored(store, k[1])
       /\ \A k \in store : IF Stored(Scraped, k[1]) THEN k \in Scraped ELSE k \in scraper.before
       /\ \A k \in scraper.before : Stored(store, k[1]) /\ (~Stored(Scraped, k[1]) => k \in store)

\* C21's case: a save found no record of its grabId and has not inserted
\* yet, while a concurrent save of the same grabId has stored another record.
C21_Witness ==
  \E i \in scraper.running :
    /\ Stored(store, scraper.allRestaurants[i][1])
    /\ scraper.allRestaurants[i] \notin store

\* C22: fetchPage makes at most maxRetries + 1 attempts for a page; when it
\* resolves, every attempt but the last failed and its result is the
\* searchMerchants of the last response ([] when absent); when it rejects,
\* every attempt failed, and after a 429 or another failed request it
\* rejects only when maxRetries + 1 attempts were made.
C22_FetchPageRetries ==
  /\ scraper.attempts <= maxRetries + 1
  /\ scraper.pc = "resolved" =>
       /\ scraper.failures = scraper.attempts - 1
       /\ scraper.result = OrEmpty(scraper.answer)
  /\ scraper.pc = "rejected" =>
       /\ scraper.failures = scraper.attempts
       /\ scraper.lastFailure \in {"429", "error"} => scraper.attempts = maxRetries + 1

\* C22's case: one 429 and then a response with merchants: two requests,
\* and the merchants of the response are the result.
C22_Witness ==
  /\ scraper.pc = "resolved"
  /\ scraper.attempts = 2
  /\ scraper.lastFailure = "429"
  /\ scraper.answer # None
  /\ scraper.result = scraper.answer[1]
  /\ Len(scraper.result) > 0

\* The merchants of the first n pages of a list of fetched pages.
RECURSIVE MerchantsOf(_, _)
MerchantsOf(pages, n) ==
  IF n = 0 THEN << >> ELSE MerchantsOf(pages, n - 1) \o pages[n].merchants

\* The offsets requested are 0, pageSize, 2 * pageSize, ..., each once; every
\* page but the last had merchants; once the loop has ended the last page
\* was empty or failed, and allRestaurants holds the merchants of the pages
\* before it in order; and when the saves have settled, every one of them
\* was saved.
PagesInOrder ==
  LET fetched == scraper.fetched
      n == Len(fetched)
  IN /\ \A i \in 1..n : fetched[i].offset = (i - 1) * pageSize
     /\ \A i \in 1..(n - 1) : fetched[i].ok /\ fetched[i].merchants # << >>
     /\ scraper.pc \in {"request", "wait", "failedAttempt", "resolved", "rejected"} =>
          /\ scraper.offset = n * pageSize
          /\ \A i \in 1..n : fetched[i].ok /\ fetched[i].merchants # << >>
          /\ scraper.allRestaurants = MerchantsOf(fetched, n)
          /\ scraper.next = 1
     /\ scraper.pc \in {"saving", "done"} =>
          /\ n >= 1
          /\ ~fetched[n].ok \/ fetched[n].merchants = << >>
          /\ scraper.allRestaurants = MerchantsOf(fetched, n - 1)
     /\ AllSaved =>
          /\ scraper.settled = Len(scraper.allRestaurants)
          /\ \A k \in Scraped : Stored(store, k[1])

C23_OpenNowNotInFilter ==
  (route = "list" /\ pc \in {"list_find", "list_count", "done"}) =>
    \E filter \in {AttributeFilter(query)} :
      /\ filter = AttributeFilter(WithOpenNow(query, Undefined))
      /\ filter = AttributeFilter(WithOpenNow(query, True))
      /\ filter.isOpen # None <=> query["isOpen"] # Undefined

\* C23's case: a request with openNow=true and no isOpen parameter is
\* answered with a record whose stored isOpen is false.
C23_Witness ==
  /\ ListAnswered
  /\ query["openNow"] = True
  /\ query["isOpen"] = Undefined
  /\ response.status = 200
  /\ \E i \in 1..Len(response.data) : ~Doc(response.data[i]).isOpen

\* C24 as stated: a proximity request whose maxDistance is not a number is
\* answered with the total and the records of the same request without
\* maxDistance, the radius being 2000 metres.
C24_MalformedRadiusAsDefault ==
  (/\ pc = "done" /\ route = "near" /\ response.status # 400
   /\ failed \notin {"count", "results"}
   /\ SkipOf(query) >= 0
   /\ query["maxDistance"] # Undefined /\ isNaN(ParseInt(query["maxDistance"]))) =>
    LET q0 == Without(query, "maxDistance")
        S == GeoNear(store, PointOf(q0), DefaultMaxDistance, NearFilter(q0))
    IN /\ response.status = 200
       /\ response.pagination.total = Cardinality(S)
       /\ IsNearPageOf(response.data, S, q0)

\* C26 as stated: the data of a 200 response of either path holds no more
\* records than pagination.total says, whatever the scraper saves between
\* the two store calls of the request.
C26_DataWithinTotal ==
  (pc = "done" /\ route \in {"list", "near"} /\ response.status = 200 /\ failed = "none") =>
    Len(response.data) <= response.pagination.total

\* C27 as stated: when page and limit are integers, the skip and the limit
\* of a store call are >= 0 and >= 1, and the request is not answered 5xx.
C27_SkipAndLimitInRange ==
  (/\ route \in {"list", "near"}
   /\ pc \in {"list_find", "list_count", "near_count", "near_results"}
        \/ (pc = "done" /\ response.status # 400)
   /\ query["openNow"] # True \/ route = "near"
   /\ failed \notin {"find", "count", "results"}
   /\ ~isNaN(PageOf(query)) /\ ~isNaN(LimitOf(query))) =>
    /\ SkipOf(query) >= 0
    /\ LimitOf(query) >= 1
    /\ pc = "done" => response.status < 500

\* C30 as stated: in a 200 response of either path count is the number of
\* records of data, and so differs from pagination.total when data holds
\* fewer records than total.
C30_CountIsDataLength ==
  (pc = "done" /\ route \in {"list", "near"} /\ response.status = 200 /\ failed = "none") =>
    /\ response.count = Len(response.data)
    /\ response.pagination.total > Len(response.data) =>
         response.count # response.pagination.total


(***************************************************************************)
(* Properties of the open-now result against the plain result               *)
(***************************************************************************)

\* a can be had from b by removing elements of b.
RECURSIVE IsSubsequence(_, _)
IsSubsequence(a, b) ==
  IF a = << >> THEN TRUE
  ELSE IF b = << >> THEN FALSE
  ELSE IF a[1] = b[1] THEN IsSubsequence(Tail(a), Tail(b))
  ELSE IsSubsequence(a, Tail(b))

\* The client holds every page of the query without openNow and every page
\* of the same query with openNow=true.
ComparedBoth ==
  /\ pc = "idle"
  /\ session.active
  /\ session.query["openNow"] = True
  /\ session.plain # << >>
  /\ \/ AtLastPage
     \/ /\ Len(session.pages) = 1
        /\ session.pages[1].status = 200
        /\ session.pages[1].pagination.total = 0

\* C28 as stated: with the filters, the sort and the store the same, the
\* pages of the request with openNow=true, concatenated, are a subsequence
\* of the concatenated pages of the request without openNow.
C28_OpenNowIsSubsequence ==
  ComparedBoth => IsSubsequence(Concat(session.pages), Concat(session.plain))


(***************************************************************************)
(* Properties of the open-now total on the large collection                 *)
(***************************************************************************)

\* The documents of the large collection that satisfy the filter of the
\* request in flight, and those of them open at the instant it read.
MatchingKeys == Matching(store, AttributeFilter(query))
OpenMatchingKeys == {k \in MatchingKeys : OpenNowPredicate(Doc(k), instant)}

\* The number of documents that the asked order puts before those of key k.
DocumentsBefore(k) ==
  LET filter == AttributeFilter(query)
  IN CountAll({h \in MatchingKeys :
                 Before(Doc(h), Doc(k), SortKeys(filter, SortOf(query)), 1, SearchOf(filter))})

\* The documents of key k among the first SupersetCap of the asked order.
WithinCap(k) == Max(0, Min(DocumentsBefore(k) + Copies(k), SupersetCap) - DocumentsBefore(k))

RECURSIVE OpenWithinCap(_)
OpenWithinCap(S) ==
  IF S = {} THEN 0
  ELSE LET k == CHOOSE x \in S : TRUE IN WithinCap(k) + OpenWithinCap(S \ {k})

\* The request in flight has been answered by the open-now branch.
OpenNowAnswered ==
  /\ pc = "done" /\ route = "list" /\ failed = "none"
  /\ query["openNow"] = True
  /\ response.status = 200

\* C29: the total of an answer with openNow=true is at most 10000 and at
\* most the number of documents that satisfy the filters without openNow;
\* it is the number of open documents among the first 10000 of the asked
\* order, so that no document after them is counted.
C29_TotalWithinCeiling ==
  OpenNowAnswered =>
    /\ response.pagination.total <= SupersetCap
    /\ response.pagination.total <= CountAll(MatchingKeys)
    /\ response.pagination.total = OpenWithinCap(OpenMatchingKeys)

\* C29's case: more than 10000 documents satisfy the filters and are open,
\* and the answer counts 10000.
C29_Witness ==
  /\ OpenNowAnswered
  /\ CountAll(OpenMatchingKeys) > SupersetCap
  /\ response.pagination.total = SupersetCap

====
